---- MODULE Spec2Model ----
(***************************************************************************)
(* A model of robot-gitee-approve: the approve robot evaluates a pull      *)
(* request (approve.handle), folding the PR's comments into an approver    *)
(* set, deciding the verdict against the ownership tree and reconciling    *)
(* the verdict onto the PR (one status comment, the approved label).       *)
(*                                                                         *)
(* Spec     : the robot as deployed - robot.handle, the ghclient adapter,  *)
(*            transformConfig and approve.handle, against a hosting        *)
(*            service that holds the PR's comments, label and history.     *)
(* SpecFold : the pure core of handle (aggregation, approver fold,         *)
(*            verdict, notification choice) applied to bounded inputs, as  *)
(*            any githubClient may return them and under every option.     *)
(***************************************************************************)
EXTENDS Integers, Sequences, FiniteSets, TLC

\* ------------------------------------------------------------------ bounds
MaxComments == 1
MaxLabelOps == 1
MaxFailures == 1
MaxStream   == 2

\* --------------------------------------------------------------- identities
Author   == "alice"
BotLogin == "ci-bot"
OrgName  == "org"

deprecatedBotNames == <<"k8s-merge-robot", "openshift-merge-robot">>

approveCommand  == "APPROVE"
cancelArgument  == "cancel"
lgtmCommand     == "LGTM"
noIssueArgument == "no-issue"

LabelsApproved             == "approved"
IssueActionLabeled         == "labeled"
ReviewStateApproved         == "APPROVED"
ReviewStateChangesRequested == "CHANGES_REQUESTED"
ReviewStateDismissed        == "DISMISSED"
ApprovalNotificationName    == "[APPROVALNOTIFIER]"

\* ------------------------------------------------------------ text helpers
\* strings.ToUpper / strings.ToLower on the strings the model uses.
ToUpper(s) ==
  CASE s \in {"approve", "Approve", "APPROVE"} -> "APPROVE"
    [] s \in {"lgtm", "Lgtm", "LGTM"}          -> "LGTM"
    [] s \in {"hold", "HOLD"}                  -> "HOLD"
    [] s \in {"approved", "APPROVED"}          -> "APPROVED"
    [] s \in {"changes_requested", "CHANGES_REQUESTED"} -> "CHANGES_REQUESTED"
    [] s \in {"dismissed", "DISMISSED"}        -> "DISMISSED"
    [] s \in {"commented", "COMMENTED"}        -> "COMMENTED"
    [] OTHER -> s

ToLower(s) ==
  CASE s \in {"cancel", "Cancel", "CANCEL"}        -> "cancel"
    [] s \in {"no-issue", "No-Issue", "NO-ISSUE"}  -> "no-issue"
    [] s \in {"cancelled", "Cancelled"}            -> "cancelled"
    [] s \in {"[approvalnotifier]", "[APPROVALNOTIFIER]", "[ApprovalNotifier]"}
                                                   -> "[approvalnotifier]"
    [] OTHER -> s

\* strings.Contains on one word.
WordContains(w, sub) ==
  \/ w = sub
  \/ sub = "cancel" /\ w = "cancelled"

\* A command line's argument is the rest of the line: a sequence of words.
\* strings.ToLower(strings.TrimSpace(match[2]))
LowerArgs(args) == [i \in 1..Len(args) |-> ToLower(args[i])]

\* strings.Contains(args, sub), sub a single word.
ArgsContain(args, sub) == \E i \in 1..Len(args) : WordContains(args[i], sub)

\* args == noIssueArgument
ArgsEqual(args, word) == Len(args) = 1 /\ args[1] = word

\* A body is a record: marker (the leading token of the text, "" if none),
\* msg (the rendered status message the text carries, NoMsg if none) and
\* lines (the lines of the text, each [slash, name, args]).
NoMsg == [none |-> TRUE]

Line(name, args) == [slash |-> TRUE, name |-> name, args |-> args]
TextLine         == [slash |-> FALSE, name |-> "", args |-> <<>>]

UserBody(lines) == [marker |-> "", msg |-> NoMsg, lines |-> lines]

\* commandRegex.FindAllStringSubmatch(body, -1): the lines "/name rest".
CommandMatches(body) ==
  SelectSeq(body.lines, LAMBDA l : l.slash /\ l.name # "")

\* notificationRegex matches: the body starts with the marker, any case.
NotificationRegexMatches(body) ==
  ToLower(body.marker) = ToLower(ApprovalNotificationName)

\* strings.Contains(body, message): message starts with the marker in its
\* canonical case and is rendered text; a body holds it iff it carries it.
BodyContains(body, message) ==
  /\ body.marker = message.marker
  /\ body.msg = message.msg

isDeprecatedBotMissesSecond(login) == deprecatedBotNames[1] = login

isDeprecatedBot(login) ==
  \E i \in 1..Len(deprecatedBotNames) : deprecatedBotNames[i] = login

\* ---------------------------------------------------------------- sorting
\* sort.SliceStable(comments, CreatedAt.Before): stable insertion.
RECURSIVE InsertStable(_, _)
InsertStable(sorted, c) ==
  IF sorted = <<>> THEN <<c>>
  ELSE IF c.CreatedAt < sorted[Len(sorted)].CreatedAt
       THEN Append(InsertStable(SubSeq(sorted, 1, Len(sorted) - 1), c),
                   sorted[Len(sorted)])
       ELSE Append(sorted, c)

RECURSIVE SortStable(_)
SortStable(cs) ==
  IF cs = <<>> THEN <<>>
  ELSE InsertStable(SortStable(SubSeq(cs, 1, Len(cs) - 1)), cs[Len(cs)])

\* filterComments
filterComments(comments, filter(_)) == SelectSeq(comments, filter)

NoComment == [none |-> TRUE]

getLast(cs) == IF Len(cs) = 0 THEN NoComment ELSE cs[Len(cs)]

\* ------------------------------------------------ ownership (approvers.Repo)
\* A path is its sequence of components; the ownership tree maps the
\* directories that declare approvers to their approver sets.
DirOf(path) == SubSeq(path, 1, Len(path) - 1)

RECURSIVE Approvers(_, _)
Approvers(tree, dir) ==
  IF dir \in DOMAIN tree THEN tree[dir]
  ELSE IF dir = <<>> THEN {}
  ELSE Approvers(tree, DirOf(dir))

SeqToSet(s) == {s[i] : i \in 1..Len(s)}

\* approvers.NewOwners(log, filenames, repo, seed)
NewOwners(filenames, repo) == [filenames |-> filenames, repo |-> repo]

\* ------------------------------------------- approver state (approvers pkg)
EmptyApprovals == [l \in {} |-> [How |-> "", Reference |-> 0, NoIssue |-> FALSE]]

NewApprovers(owners) ==
  [owners           |-> owners,
   approvers        |-> EmptyApprovals,
   assignees        |-> {},
   AssociatedIssue  |-> 0,
   RequireIssue     |-> FALSE,
   ManuallyApproved |-> FALSE]

PutApproval(ap, login, how, reference, noIssue) ==
  [ap EXCEPT !.approvers =
     [l \in DOMAIN ap.approvers \cup {login} |->
        IF l = login
        THEN [How |-> how, Reference |-> reference, NoIssue |-> noIssue]
        ELSE ap.approvers[l]]]

AddApprover(ap, login, reference, noIssue) ==
  PutApproval(ap, login, "Approved", reference, noIssue)

AddLGTMer(ap, login, reference, noIssue) ==
  PutApproval(ap, login, "LGTM", reference, noIssue)

AddAuthorSelfApprover(ap, login, reference, noIssue) ==
  PutApproval(ap, login, "Author self-approved", reference, noIssue)

RemoveApprover(ap, login) ==
  [ap EXCEPT !.approvers =
     [l \in DOMAIN ap.approvers \ {login} |-> ap.approvers[l]]]

AddAssignees(ap, login) == [ap EXCEPT !.assignees = @ \cup {login}]

GetCurrentApproversSet(ap) == DOMAIN ap.approvers

LGTMers(ap) == {l \in DOMAIN ap.approvers : ap.approvers[l].How = "LGTM"}

NoIssueApprovers(ap) == {l \in DOMAIN ap.approvers : ap.approvers[l].NoIssue}

UnapprovedFiles(ap) ==
  {f \in SeqToSet(ap.owners.filenames) :
     Approvers(ap.owners.repo, DirOf(f)) \cap GetCurrentApproversSet(ap) = {}}

AreFilesApproved(ap) == UnapprovedFiles(ap) = {}

RequirementsMet(ap) ==
  /\ AreFilesApproved(ap)
  /\ (~ap.RequireIssue \/ ap.AssociatedIssue # 0 \/ NoIssueApprovers(ap) # {})

IsApproved(ap) == ap.ManuallyApproved \/ RequirementsMet(ap)

\* approvers.GetMessage: the rendered status comment.
GetMessage(ap) ==
  [marker |-> ApprovalNotificationName,
   msg    |-> [approved   |-> RequirementsMet(ap),
               manual     |-> ~RequirementsMet(ap) /\ ap.ManuallyApproved,
               approvers  |-> ap.approvers,
               unapproved |-> UnapprovedFiles(ap),
               suggested  |-> {a \in ap.assignees :
                                 \E f \in UnapprovedFiles(ap) :
                                   a \in Approvers(ap.owners.repo, DirOf(f))},
               issue      |-> ap.AssociatedIssue,
               needsIssue |-> ap.RequireIssue],
   lines  |-> <<TextLine>>]


\* --------------------------------------------------- configuration (plugins)
\* A *bool field: set says whether the pointer is non-nil.
NilPtr   == [set |-> FALSE, val |-> FALSE]
Ptr(v)   == [set |-> TRUE, val |-> v]

HasSelfApprovalIgnoresRequire(a) ==
  IF a.DeprecatedImplicitSelfApprove.set
  THEN a.DeprecatedImplicitSelfApprove.val
  ELSE TRUE

HasSelfApproval(a) ==
  IF a.DeprecatedImplicitSelfApprove.set
  THEN a.DeprecatedImplicitSelfApprove.val
  ELSE IF a.RequireSelfApproval.set
       THEN ~a.RequireSelfApproval.val
       ELSE TRUE

ConsiderReviewStateAlways(a) == TRUE

ConsiderReviewState(a) ==
  IF a.DeprecatedReviewActsAsApprove.set
  THEN a.DeprecatedReviewActsAsApprove.val
  ELSE IF a.IgnoreReviewState.set
       THEN ~a.IgnoreReviewState.val
       ELSE TRUE

\* transformConfig(org, cfg): only the two pointers are set.
transformConfig(org, c) ==
  [Repos                         |-> <<org>>,
   IssueRequired                 |-> FALSE,
   DeprecatedImplicitSelfApprove |-> NilPtr,
   RequireSelfApproval           |-> Ptr(c.RequireSelfApproval),
   LgtmActsAsApprove             |-> FALSE,
   DeprecatedReviewActsAsApprove |-> NilPtr,
   IgnoreReviewState             |-> Ptr(c.ignoreReviewState)]

\* ------------------------------------------------------- comments (unified)
commentFromIssueComment(ic) ==
  [Body |-> ic.Body, Author |-> ic.User, CreatedAt |-> ic.CreatedAt,
   ID |-> ic.ID, ReviewState |-> ""]

commentsFromIssueComments(ics) ==
  [i \in 1..Len(ics) |-> commentFromIssueComment(ics[i])]

commentFromReviewComment(rc) ==
  [Body |-> rc.Body, Author |-> rc.User, CreatedAt |-> rc.CreatedAt,
   ID |-> rc.ID, ReviewState |-> ""]

commentsFromReviewComments(rcs) ==
  [i \in 1..Len(rcs) |-> commentFromReviewComment(rcs[i])]

commentFromReview(review) ==
  [Body |-> review.Body, Author |-> review.User,
   CreatedAt |-> review.SubmittedAt, ID |-> review.ID,
   ReviewState |-> review.State]

commentsFromReviews(reviews) ==
  [i \in 1..Len(reviews) |-> commentFromReview(reviews[i])]

\* ------------------------------------------------------------------ matchers
isApprovalCommandNeedsLgtm(botName, lgtmActsAsApprove, c) ==
  IF c.Author = botName \/ isDeprecatedBot(c.Author) THEN FALSE
  ELSE LET ms == CommandMatches(c.Body)
       IN \E i \in 1..Len(ms) :
            LET cmd == ToUpper(ms[i].name)
            IN (cmd = lgtmCommand \/ cmd = approveCommand) /\ lgtmActsAsApprove

isApprovalCommand(botName, lgtmActsAsApprove, c) ==
  IF c.Author = botName \/ isDeprecatedBot(c.Author) THEN FALSE
  ELSE LET ms == CommandMatches(c.Body)
       IN \E i \in 1..Len(ms) :
            LET cmd == ToUpper(ms[i].name)
            IN (cmd = lgtmCommand /\ lgtmActsAsApprove) \/ cmd = approveCommand

isApprovalState(botName, reviewActsAsApprove, c) ==
  IF c.Author = botName \/ isDeprecatedBot(c.Author) THEN FALSE
  ELSE LET reviewState == ToUpper(c.ReviewState)
       IN reviewActsAsApprove /\ (reviewState = ReviewStateApproved \/
                                  reviewState = ReviewStateChangesRequested \/
                                  reviewState = ReviewStateDismissed)

approvalMatcher(botName, lgtmActsAsApprove, reviewActsAsApprove, c) ==
  \/ isApprovalCommand(botName, lgtmActsAsApprove, c)
  \/ isApprovalState(botName, reviewActsAsApprove, c)

notificationMatcherOwnOnly(botName, c) ==
  IF c.Author # botName THEN FALSE
  ELSE NotificationRegexMatches(c.Body)

notificationMatcher(botName, c) ==
  IF c.Author # botName /\ ~isDeprecatedBot(c.Author) THEN FALSE
  ELSE NotificationRegexMatches(c.Body)

\* ------------------------------------------------------------- addApprovers
\* The inner loop of addApprovers over one comment's command lines.
RECURSIVE addCommands(_, _, _, _)
addCommands(ap, ms, c, author) ==
  IF ms = <<>> THEN ap
  ELSE LET name == ToUpper(ms[1].name)
           args == LowerArgs(ms[1].args)
       IN IF name # approveCommand /\ name # lgtmCommand
          THEN addCommands(ap, Tail(ms), c, author)
          ELSE IF ArgsContain(args, cancelArgument)
          THEN addCommands(RemoveApprover(ap, c.Author), Tail(ms), c, author)
          ELSE LET noIssue == ArgsEqual(args, noIssueArgument)
                   ap1 == IF c.Author = author
                          THEN AddAuthorSelfApprover(ap, c.Author, c.ID, noIssue)
                          ELSE ap
                   ap2 == IF name = approveCommand
                          THEN AddApprover(ap1, c.Author, c.ID, noIssue)
                          ELSE AddLGTMer(ap1, c.Author, c.ID, noIssue)
               IN addCommands(ap2, Tail(ms), c, author)

\* The body of the outer loop of addApprovers for one comment.
addApproversOf(ap, c, author, reviewActsAsApprove) ==
  IF c.Author = "" THEN ap
  ELSE LET ap1 == IF reviewActsAsApprove /\ c.ReviewState = ReviewStateApproved
                  THEN AddApprover(ap, c.Author, c.ID, FALSE)
                  ELSE ap
           ap2 == IF reviewActsAsApprove /\ c.ReviewState = ReviewStateChangesRequested
                  THEN RemoveApprover(ap1, c.Author)
                  ELSE ap1
       IN addCommands(ap2, CommandMatches(c.Body), c, author)

RECURSIVE addApproversFrom(_, _, _, _)
addApproversFrom(ap, approveComments, author, reviewActsAsApprove) ==
  IF approveComments = <<>> THEN ap
  ELSE addApproversFrom(
         addApproversOf(ap, approveComments[1], author, reviewActsAsApprove),
         Tail(approveComments), author, reviewActsAsApprove)

addApproversFirstWins(ap, approveComments, author, reviewActsAsApprove) ==
  addApproversFrom(ap,
    [i \in 1..Len(approveComments) |->
       approveComments[Len(approveComments) + 1 - i]],
    author, reviewActsAsApprove)

addApprovers(ap, approveComments, author, reviewActsAsApprove) ==
  addApproversFrom(ap, approveComments, author, reviewActsAsApprove)

\* ------------------------------------------------------ findAssociatedIssue
\* The PR body as the references it holds, in order: [kind, org, num, fits];
\* kind is "hash" (#num) or "url" (org/repo/issues/num); fits tells whether
\* strconv.Atoi accepts the digits.
findAssociatedIssue(body, org) ==
  LET hits == SelectSeq(body, LAMBDA t :
                t.kind = "hash" \/ (t.kind = "url" /\ t.org = org))
  IN IF Len(hits) = 0 THEN 0
     ELSE IF ~hits[1].fits THEN 0
     ELSE hits[1].num

\* -------------------------------------------------------- humanAddedApproved
RECURSIVE lastAddedActor(_, _)
lastAddedActor(events, last) ==
  IF events = <<>> THEN last
  ELSE IF events[1].Event # IssueActionLabeled \/ events[1].Label # LabelsApproved
       THEN lastAddedActor(Tail(events), last)
       ELSE lastAddedActor(Tail(events), events[1].Actor)

findOutErrorOverrides(hasLabel, listed, botName) ==
  IF ~hasLabel THEN FALSE
  ELSE IF listed.err THEN TRUE
  ELSE LET actor == lastAddedActor(listed.events, "")
       IN ~(actor = "" \/ actor = botName \/ isDeprecatedBot(actor))

\* findOut of humanAddedApproved; listed is ListIssueEvents' result.
findOut(hasLabel, listed, botName) ==
  IF ~hasLabel THEN FALSE
  ELSE IF listed.err THEN FALSE
  ELSE LET actor == lastAddedActor(listed.events, "")
       IN ~(actor = "" \/ actor = botName \/ isDeprecatedBot(actor))

\* The closure without its cache: findOut runs at every call.
humanAddedApprovedUncached(e, listed) ==
  LET v == findOut(e.hasApprovedLabel, listed, e.botName)
  IN [e EXCEPT !.cache = Ptr(v),
               !.listed = listed,
               !.consults = Append(@, v),
               !.nListEvents = IF e.hasApprovedLabel THEN @ + 1 ELSE @]

\* The function humanAddedApproved returns (lines 264-271), called in the
\* evaluation e: findOut runs when cache is nil, and lists the history when
\* the label is present. "cache" is the closure's *bool, "consults" the
\* values its calls returned, listed what ListIssueEvents returns if asked.
humanAddedApproved(e, listed) ==
  IF e.cache # NilPtr
  THEN [e EXCEPT !.consults = Append(@, e.cache.val)]
  ELSE LET v == findOut(e.hasApprovedLabel, listed, e.botName)
       IN [e EXCEPT !.cache = Ptr(v),
                    !.listed = listed,
                    !.consults = Append(@, v),
                    !.nListEvents = IF e.hasApprovedLabel THEN @ + 1 ELSE @]

\* -------------------------------------------------------- updateNotification
updateNotificationAlways(latestNotification, approversHandler) ==
  GetMessage(approversHandler)

updateNotification(latestNotification, approversHandler) ==
  LET message == GetMessage(approversHandler)
  IN IF message = NoMsg
        \/ (latestNotification # NoComment
            /\ BodyContains(latestNotification.Body, message))
     THEN NoMsg
     ELSE message

\* ------------------------------------------------------ the core of handle
\* handle, lines 131-134: the changed files' names.
filenamesOf(changes) == [i \in 1..Len(changes) |-> changes[i].Filename]

\* handle, lines 139-145.
hasApprovedLabelOf(issueLabels) ==
  \E i \in 1..Len(issueLabels) : issueLabels[i].Name = LabelsApproved

\* handle, lines 165-186: the handler before any comment is folded in.
configureNeverRequiresIssue(filenames, repo, opts, pr, manual) ==
  LET h == [NewApprovers(NewOwners(filenames, repo)) EXCEPT
              !.AssociatedIssue  = findAssociatedIssue(pr.body, pr.org),
              !.ManuallyApproved = manual]
  IN IF HasSelfApproval(opts)
     THEN AddAuthorSelfApprover(h, pr.author, 0, FALSE)
     ELSE AddAssignees(h, pr.author)

configure(filenames, repo, opts, pr, manual) ==
  LET h == [NewApprovers(NewOwners(filenames, repo)) EXCEPT
              !.AssociatedIssue  = findAssociatedIssue(pr.body, pr.org),
              !.RequireIssue     = opts.IssueRequired,
              !.ManuallyApproved = manual]
  IN IF HasSelfApproval(opts)
     THEN AddAuthorSelfApprover(h, pr.author, 0, FALSE)
     ELSE AddAssignees(h, pr.author)

\* handle, lines 190-195: one chronological stream.
aggregateIssueCommentsFirst(issueComments, reviewComments, reviews) ==
  SortStable(commentsFromIssueComments(issueComments)
               \o commentsFromReviewComments(reviewComments)
               \o commentsFromReviews(reviews))

aggregate(issueComments, reviewComments, reviews) ==
  SortStable(commentsFromReviewComments(reviewComments)
               \o commentsFromIssueComments(issueComments)
               \o commentsFromReviews(reviews))

\* handle, lines 196-197.
approveCommentsOf(comments, botName, opts) ==
  filterComments(comments,
    LAMBDA c : approvalMatcher(botName, opts.LgtmActsAsApprove,
                               ConsiderReviewState(opts), c))

\* handle, lines 200-202.
RECURSIVE addAllAssignees(_, _)
addAllAssignees(ap, assignees) ==
  IF assignees = <<>> THEN ap
  ELSE addAllAssignees(AddAssignees(ap, assignees[1]), Tail(assignees))

\* handle, lines 164-202: the approvers handler of one evaluation.
approversHandlerOf(e, manual) ==
  LET comments == aggregate(e.issueComments, e.reviewComments, e.reviews)
      approveComments == approveCommentsOf(comments, e.botName, e.opts)
      h == addApprovers(configure(e.filenames, e.repo, e.opts, e.pr, manual),
                        approveComments, e.pr.author,
                        ConsiderReviewState(e.opts))
  IN addAllAssignees(h, e.pr.assignees)

\* handle, line 205.
notificationsOfNone(e) == <<>>

notificationsOf(e) ==
  filterComments(commentsFromIssueComments(e.issueComments),
                 LAMBDA c : notificationMatcher(e.botName, c))

\* handle, lines 164-209, given what ListIssueEvents returns when asked.
evaluated(e, listed) ==
  LET e1     == humanAddedApproved(e, listed)
      manual == e1.cache.val
      ap     == approversHandlerOf(e, manual)
      notifications == notificationsOf(e)
      newMessage    == updateNotification(getLast(notifications), ap)
  IN [e1 EXCEPT
               !.ap = ap,
               !.notifications = notifications,
               !.newMessage = newMessage,
               !.i = 1,
               !.pc = IF newMessage = NoMsg THEN "Label"
                      ELSE IF notifications = <<>> THEN "CreateComment"
                      ELSE "DeleteComment"]

\* ------------------------------------------------- the ghclient adapter
Ok(v)   == [err |-> FALSE, val |-> v]
Err(v)  == [err |-> TRUE, val |-> v]

transformPRChanges(changes) ==
  [i \in 1..Len(changes) |-> [Filename |-> changes[i].Filename]]

transformLabels(ls) == [i \in 1..Len(ls) |-> [Name |-> ls[i]]]

\* transformComments; parseTime reads the RFC 3339 text of the timestamp.
transformComments(comments) ==
  [i \in 1..Len(comments) |->
     [ID |-> comments[i].Id, Body |-> comments[i].Body,
      User |-> comments[i].User, CreatedAt |-> comments[i].CreatedAt]]

ghclient_GetPullRequestChanges(fails, cs) ==
  IF fails THEN Err(<<>>) ELSE Ok(transformPRChanges(cs))

ghclient_GetIssueLabels(fails, ls) ==
  IF fails THEN Err(<<>>) ELSE Ok(transformLabels(ls))

ghclient_ListIssueComments(fails, comments) ==
  IF fails THEN Err(<<>>) ELSE Ok(transformComments(comments))

ghclient_BotName(fails, bot) == IF fails THEN Err("") ELSE Ok(bot)

\* The three reads the adapter answers without asking the hosting service.
ghclient_ListIssueEvents(history) == [err |-> FALSE, events |-> <<>>]

\* ListIssueEvents of the client handle is given: the robot's adapter, or a
\* client that lists the pull request's history.
ListIssueEvents(c, history) ==
  IF c = "ghclient" THEN ghclient_ListIssueEvents(history)
  ELSE [err |-> FALSE, events |-> history]

ghclient_ListReviews == Ok(<<>>)

ghclient_ListPullRequestComments == Ok(<<>>)

\* ------------------------------------------------------------------- state
VARIABLES
  labels,      \* hosting: the PR's label names
  events,      \* hosting: the PR's label-change history
  prComments,  \* hosting: the PR's comments, in creation order
  nextId,      \* hosting: the next comment id, also its creation time
  changes,     \* hosting: the PR's changed files
  tree,        \* ownership service: directory -> approvers
  hook,        \* the pull request as the webhook payload carries it
  cfg,         \* botConfig of the repository
  ev,          \* the evaluations: process -> the locals of robot.handle/handle
  nPosted,     \* comments posted by users
  nLabelOps,   \* label changes made by users
  nFails,      \* remote calls that failed
  stable,      \* the last evaluation ended reconciled and nothing changed since
  stream,      \* SpecFold: the comments and reviews drawn, in time order
  client,      \* the githubClient handle is given: "ghclient", the robot's
               \* adapter, or "listing", a client that lists the history
  webhook      \* SpecHook: the events of the hosting service and the robot
               \* that receives them

vars == <<labels, events, prComments, nextId, changes, tree, hook, cfg, ev,
          nPosted, nLabelOps, nFails, stable, stream, client,
          webhook>>

hosting == <<labels, events, prComments, nextId>>
inputs  == <<changes, tree, hook, cfg, stream, client, webhook>>

\* ----------------------------------------------------------- input domains
FileX == <<"pkg", "a", "x.go">>
FileR == <<"README">>

TreeA == (<<"pkg", "a">> :> {"bob"})
TreeB == (<<"pkg">> :> {Author}) @@ (<<>> :> {"bob"})

Approve       == UserBody(<<Line("approve", <<>>)>>)
ApproveCancel == UserBody(<<Line("approve", <<"cancel">>)>>)
ApproveNoIssue == UserBody(<<Line("approve", <<"no-issue">>)>>)
Lgtm          == UserBody(<<Line("lgtm", <<>>)>>)
LgtmCancel    == UserBody(<<Line("lgtm", <<"cancel">>)>>)
CancelThenLgtm == UserBody(<<Line("approve", <<"cancel">>), Line("lgtm", <<>>)>>)
CancelThenApprove ==
  UserBody(<<Line("approve", <<"cancel">>), TextLine, Line("Approve", <<>>)>>)
NoBody        == UserBody(<<>>)

\* A status comment left by a predecessor of the bot.
LegacyNotification ==
  [Id |-> 1, User |-> deprecatedBotNames[1], CreatedAt |-> 1,
   Body |-> [marker |-> "[ApprovalNotifier]",
             msg    |-> [legacy |-> TRUE],
             lines  |-> <<TextLine>>]]

\* What users post on the pull request: [User, Body].
Posts == {[User |-> Author, Body |-> Approve],
          [User |-> Author, Body |-> CancelThenLgtm],
          [User |-> "bob",  Body |-> Approve],
          [User |-> "bob",  Body |-> ApproveCancel]}

\* The pull requests evaluated: the changed files and the ownership tree.
Scenarios == {[changes |-> <<>>, tree |-> TreeA],
              [changes |-> <<[Filename |-> FileX]>>, tree |-> TreeA],
              [changes |-> <<[Filename |-> FileX]>>, tree |-> TreeB],
              [changes |-> <<[Filename |-> FileX], [Filename |-> FileR]>>,
               tree |-> TreeB]}

\* ------------------------------------------------------------ robot.handle
\* Whether the next remote call may fail.
MayFail == IF nFails < MaxFailures THEN BOOLEAN ELSE {FALSE}

Failed(fails) == nFails' = IF fails THEN nFails + 1 ELSE nFails

NoAp == [none |-> TRUE]

\* No robot is registered with the hosting service.
NoHook == [botName |-> "", queue |-> <<>>, emitted |-> 0, nEvents |-> 0,
           handled |-> <<>>, nEvals |-> 0]

NoState ==
  [org |-> "", repo |-> "", branch |-> "", number |-> 0, body |-> <<>>,
   author |-> "", assignees |-> <<>>, htmlURL |-> ""]

NoOpts == transformConfig("", [RequireSelfApproval |-> FALSE,
                                ignoreReviewState |-> FALSE])

IdleEval ==
  [pc |-> "idle", ret |-> "", opts |-> NoOpts, pr |-> NoState,
   repo |-> <<>>, filenames |-> <<>>, hasApprovedLabel |-> FALSE,
   botName |-> "", issueComments |-> <<>>, reviewComments |-> <<>>,
   reviews |-> <<>>, listed |-> [err |-> FALSE, events |-> <<>>],
   nListEvents |-> 0, consults |-> <<>>, cache |-> NilPtr, ap |-> NoAp,
   notifications |-> <<>>,
   newMessage |-> NoMsg, i |-> 0, calls |-> <<>>, failedAt |-> "",
   rerun |-> FALSE, undisturbed |-> FALSE]

\* approve.NewState
NewState(org, repo, branch, body, author, url, number, assignees) ==
  [org |-> org, repo |-> repo, branch |-> branch, number |-> number,
   body |-> body, author |-> author, assignees |-> assignees, htmlURL |-> url]

\* robot.handle, lines 43-51: the assignees handed to NewState.
handleAssignees(as) == <<>>

\* bot.loadRepoOwners
loadRepoOwners(fails, owners) == IF fails THEN Err(<<>>) ELSE Ok(owners)

\* handle, "return fetchErr(...)": the evaluation ends with an error.
FailKeepsGoing(e, op) == [e EXCEPT !.pc = "Evaluate", !.failedAt = op]

\* The failed read is made again.
FailRetries(e, op) == e

Fail(e, op) == [e EXCEPT !.pc = "returned", !.ret = "error", !.failedAt = op]

\* handle, "log.WithError(err).Errorf(...)": a failed mutation is logged and
\* the evaluation goes on to its next step.
afterMutationAborts(e, ok, next) ==
  IF ok THEN [e EXCEPT !.pc = next]
  ELSE [e EXCEPT !.pc = "returned", !.ret = "error"]

afterMutation(e, ok, next) == [e EXCEPT !.pc = next]

Called(e, op, id, ok) ==
  [e EXCEPT !.calls = Append(@, [op |-> op, id |-> id, ok |-> ok])]

\* robot.handle up to the call of approve.Handle.
bot_handle(p) ==
  /\ ev[p].pc = "idle"
  /\ \E fails \in MayFail :
     /\ Failed(fails)
     /\
       LET oc == loadRepoOwners(fails, tree)
           e0 == [IdleEval EXCEPT !.rerun = stable, !.undisturbed = TRUE]
       IN ev' = [ev EXCEPT ![p] =
                   IF oc.err THEN Fail(e0, "loadRepoOwners")
                   ELSE [e0 EXCEPT
                           !.pc   = "GetPullRequestChanges",
                           !.repo = oc.val,
                           !.pr   = NewState(OrgName, "repo", "master",
                                      hook.body, hook.author, "url", 1,
                                      handleAssignees(hook.assignees)),
                           !.opts = transformConfig(OrgName, cfg)]]
  /\ UNCHANGED <<hosting, nPosted, nLabelOps, stable>>

\* An event handler calls robot.handle.
robot_handle(p) == bot_handle(p) /\ UNCHANGED inputs

\* ------------------------------------------------------ handle: the reads
GetPullRequestChanges(p) ==
  /\ ev[p].pc = "GetPullRequestChanges"
  /\ \E fails \in MayFail :
     /\ Failed(fails)
     /\
       LET r == ghclient_GetPullRequestChanges(fails, changes)
       IN ev' = [ev EXCEPT ![p] =
                   IF r.err THEN Fail(@, "GetPullRequestChanges")
                   ELSE [@ EXCEPT !.filenames = filenamesOf(r.val),
                                  !.pc = "GetIssueLabels"]]
  /\ UNCHANGED <<hosting, inputs, nPosted, nLabelOps, stable>>

GetIssueLabels(p) ==
  /\ ev[p].pc = "GetIssueLabels"
  /\ \E fails \in MayFail :
     /\ Failed(fails)
     /\
       LET r == ghclient_GetIssueLabels(fails, labels)
       IN ev' = [ev EXCEPT ![p] =
                   IF r.err THEN Fail(@, "GetIssueLabels")
                   ELSE [@ EXCEPT !.hasApprovedLabel = hasApprovedLabelOf(r.val),
                                  !.pc = "BotName"]]
  /\ UNCHANGED <<hosting, inputs, nPosted, nLabelOps, stable>>

BotName(p) ==
  /\ ev[p].pc = "BotName"
  /\ \E fails \in MayFail :
     /\ Failed(fails)
     /\
       LET r == ghclient_BotName(fails, BotLogin)
       IN ev' = [ev EXCEPT ![p] =
                   IF r.err THEN Fail(@, "BotName")
                   ELSE [@ EXCEPT !.botName = r.val,
                                  !.pc = "ListIssueComments"]]
  /\ UNCHANGED <<hosting, inputs, nPosted, nLabelOps, stable>>

ListIssueComments(p) ==
  /\ ev[p].pc = "ListIssueComments"
  /\ \E fails \in MayFail :
     /\ Failed(fails)
     /\
       LET r == ghclient_ListIssueComments(fails, prComments)
       IN ev' = [ev EXCEPT ![p] =
                   IF r.err THEN Fail(@, "ListIssueComments")
                   ELSE [@ EXCEPT !.issueComments = r.val,
                                  !.pc = "ListPullRequestComments"]]
  /\ UNCHANGED <<hosting, inputs, nPosted, nLabelOps, stable>>

ListPullRequestComments(p) ==
  /\ ev[p].pc = "ListPullRequestComments"
  /\ LET r == ghclient_ListPullRequestComments
     IN ev' = [ev EXCEPT ![p] =
                 IF r.err THEN Fail(@, "ListPullRequestComments")
                 ELSE [@ EXCEPT !.reviewComments = r.val, !.pc = "ListReviews"]]
  /\ UNCHANGED <<hosting, inputs, nPosted, nLabelOps, stable>>
  /\ UNCHANGED nFails

ListReviews(p) ==
  /\ ev[p].pc = "ListReviews"
  /\ LET r == ghclient_ListReviews
     IN ev' = [ev EXCEPT ![p] =
                 IF r.err THEN Fail(@, "ListReviews")
                 ELSE [@ EXCEPT !.reviews = r.val, !.pc = "Evaluate"]]
  /\ UNCHANGED <<hosting, inputs, nPosted, nLabelOps, stable>>
  /\ UNCHANGED nFails

\* --------------------------------------- handle: verdict and notification
Evaluate(p) ==
  /\ ev[p].pc = "Evaluate"
  /\ ev' = [ev EXCEPT ![p] = evaluated(@, ListIssueEvents(client, events))]
  /\ UNCHANGED <<hosting, inputs, nPosted, nLabelOps, stable>>
  /\ UNCHANGED nFails

\* ------------------------------------------------ handle: reconciliation
\* handle, lines 212-216: one iteration of the loop over notifications.
DeleteComment(p) ==
  /\ ev[p].pc = "DeleteComment"
  /\ \E fails \in MayFail :
     /\ Failed(fails)
     /\
       LET e   == ev[p]
           id  == e.notifications[e.i].ID
           ok  == ~fails /\ \E k \in 1..Len(prComments) : prComments[k].Id = id
       IN /\ prComments' = IF ok
                           THEN SelectSeq(prComments, LAMBDA c : c.Id # id)
                           ELSE prComments
          /\ ev' = [ev EXCEPT ![p] =
                      afterMutation(
                        [Called(e, "DeleteComment", id, ok) EXCEPT
                           !.i = e.i + 1],
                        ok,
                        IF e.i < Len(e.notifications)
                        THEN "DeleteComment" ELSE "CreateComment")]
  /\ UNCHANGED <<labels, events, nextId, inputs, nPosted, nLabelOps,
                 stable>>

\* handle, lines 217-219.
CreateComment(p) ==
  /\ ev[p].pc = "CreateComment"
  /\ \E fails \in MayFail :
     /\ Failed(fails)
     /\
       LET e == ev[p]
       IN /\ prComments' = IF fails THEN prComments
                           ELSE Append(prComments,
                                  [Id |-> nextId, Body |-> e.newMessage,
                                   User |-> BotLogin, CreatedAt |-> nextId])
          /\ nextId' = IF fails THEN nextId ELSE nextId + 1
          /\ ev' = [ev EXCEPT ![p] =
                      afterMutation(Called(e, "CreateComment", 0, ~fails),
                                    ~fails, "Label")]
  /\ UNCHANGED <<labels, events, inputs, nPosted, nLabelOps, stable>>

WithoutLabel(ls, name) == SelectSeq(ls, LAMBDA l : l # name)

LabelEvent(kind, actor) ==
  [Event |-> kind, Label |-> LabelsApproved, Actor |-> actor]

\* handle, lines 224-234: the label call the verdict asks for ("" for none).
labelCallIgnoresLabel(e) ==
  IF ~IsApproved(e.ap) THEN "RemoveLabel" ELSE "AddLabel"

\* The label is reconciled only by an evaluation that posts a message.
labelCallWhenPosted(e) ==
  IF e.newMessage = NoMsg THEN ""
  ELSE IF ~IsApproved(e.ap)
  THEN IF e.hasApprovedLabel THEN "RemoveLabel" ELSE ""
  ELSE IF ~e.hasApprovedLabel THEN "AddLabel" ELSE ""

labelCall(e) ==
  IF ~IsApproved(e.ap)
  THEN IF e.hasApprovedLabel THEN "RemoveLabel" ELSE ""
  ELSE IF ~e.hasApprovedLabel THEN "AddLabel" ELSE ""

\* handle, lines 224-236.
Label(p) ==
  /\ ev[p].pc = "Label"
  /\ LET e1   == humanAddedApproved(ev[p], ListIssueEvents(client, events))
         e    == [e1 EXCEPT !.ap.ManuallyApproved = e1.cache.val]
         call == labelCall(e)
     IN IF call = ""
        THEN /\ UNCHANGED <<labels, events, nFails>>
             /\ ev' = [ev EXCEPT ![p] =
                         [e EXCEPT !.pc = "returned", !.ret = "nil"]]
        ELSE \E fails \in MayFail :
               /\ Failed(fails)
               /\ labels' =
                    IF fails THEN labels
                    ELSE IF call = "RemoveLabel"
                         THEN WithoutLabel(labels, LabelsApproved)
                         ELSE IF hasApprovedLabelOf(transformLabels(labels))
                              THEN labels
                              ELSE Append(labels, LabelsApproved)
               /\ events' =
                    IF fails THEN events
                    ELSE Append(events,
                           LabelEvent(IF call = "RemoveLabel"
                                      THEN "unlabeled" ELSE "labeled",
                                      BotLogin))
               /\ ev' = [ev EXCEPT ![p] =
                           [afterMutation(Called(e, call, 0, ~fails),
                                          ~fails, "returned")
                              EXCEPT !.ret = "nil"]]
  /\ UNCHANGED <<prComments, nextId, inputs, nPosted, nLabelOps, stable>>

AllOk(calls) == \A k \in 1..Len(calls) : calls[k].ok

\* robot.handle returns to the framework.
Return(p) ==
  /\ ev[p].pc = "returned"
  /\ stable' = (ev[p].ret = "nil" /\ AllOk(ev[p].calls) /\ ev[p].undisturbed)
  /\ ev' = [ev EXCEPT ![p] = IdleEval]
  /\ UNCHANGED <<hosting, inputs, nPosted, nLabelOps>>
  /\ UNCHANGED nFails

\* ------------------------------------------------------- the environment
Disturbed == [p \in DOMAIN ev |-> [ev[p] EXCEPT !.undisturbed = FALSE]]

\* The environment's steps commute with an evaluation's local steps: it is
\* enough to let it act between evaluations and between an evaluation's
\* reads and its reconciliation.
EnvMayAct == \A p \in DOMAIN ev : ev[p].pc \in {"idle", "Evaluate"}

\* A user comments on the pull request.
PostComment ==
  /\ EnvMayAct
  /\ nPosted < MaxComments
  /\ \E c \in Posts :
       prComments' = Append(prComments,
                       [Id |-> nextId, Body |-> c.Body, User |-> c.User,
                        CreatedAt |-> nextId])
  /\ nextId' = nextId + 1
  /\ nPosted' = nPosted + 1
  /\ stable' = FALSE
  /\ ev' = Disturbed
  /\ UNCHANGED <<labels, events, inputs, nLabelOps, nFails>>

\* A user puts the approved label on the pull request by hand.
HumanAddsLabel ==
  /\ EnvMayAct
  /\ nLabelOps < MaxLabelOps
  /\ ~hasApprovedLabelOf(transformLabels(labels))
  /\ labels' = Append(labels, LabelsApproved)
  /\ events' = Append(events, LabelEvent("labeled", "carol"))
  /\ nLabelOps' = nLabelOps + 1
  /\ stable' = FALSE
  /\ ev' = Disturbed
  /\ UNCHANGED <<prComments, nextId, inputs, nPosted, nFails>>

\* ------------------------------------------------------ the specification
Configs == [RequireSelfApproval : BOOLEAN, ignoreReviewState : {FALSE}]

\* The pull request as an evaluation that approved it left it: alice's change
\* of pkg/a/x.go, bob's "/approve", the bot's status comment and the label.
ApprovedBefore ==
  LET ap == AddApprover(
              AddAssignees(NewApprovers(NewOwners(<<FileX>>, TreeA)), Author),
              "bob", 1, FALSE)
  IN [labels     |-> <<LabelsApproved>>,
      events     |-> <<LabelEvent("labeled", BotLogin)>>,
      prComments |-> <<[Id |-> 1, Body |-> Approve, User |-> "bob",
                        CreatedAt |-> 1],
                       [Id |-> 2, Body |-> GetMessage(ap), User |-> BotLogin,
                        CreatedAt |-> 2]>>,
      nextId     |-> 3]

\* A pull request is new, or carries a predecessor's status comment, or was
\* approved by an earlier evaluation.
Init ==
  /\ \/ /\ labels = <<>>
        /\ events = <<>>
        /\ prComments \in {<<>>, <<LegacyNotification>>}
        /\ nextId = Len(prComments) + 1
        /\ \E sc \in Scenarios : changes = sc.changes /\ tree = sc.tree
        /\ cfg \in Configs
        /\ stable = FALSE
     \/ /\ labels = ApprovedBefore.labels
        /\ events = ApprovedBefore.events
        /\ prComments = ApprovedBefore.prComments
        /\ nextId = ApprovedBefore.nextId
        /\ changes = <<[Filename |-> FileX]>>
        /\ tree = TreeA
        /\ cfg = [RequireSelfApproval |-> TRUE, ignoreReviewState |-> FALSE]
        /\ stable = TRUE
  /\ hook = [author |-> Author, body |-> <<>>, assignees |-> <<"bob">>]
  /\ ev = [p \in {1} |-> IdleEval]
  /\ nPosted = 0
  /\ nLabelOps = 0
  /\ nFails = 0
  /\ stream = <<>>
  /\ client = "ghclient"
  /\ webhook = NoHook

Next ==
  \/ \E p \in DOMAIN ev : robot_handle(p)
  \/ \E p \in DOMAIN ev : GetPullRequestChanges(p)
  \/ \E p \in DOMAIN ev : GetIssueLabels(p)
  \/ \E p \in DOMAIN ev : BotName(p)
  \/ \E p \in DOMAIN ev : ListIssueComments(p)
  \/ \E p \in DOMAIN ev : ListPullRequestComments(p)
  \/ \E p \in DOMAIN ev : ListReviews(p)
  \/ \E p \in DOMAIN ev : Evaluate(p)
  \/ \E p \in DOMAIN ev : DeleteComment(p)
  \/ \E p \in DOMAIN ev : CreateComment(p)
  \/ \E p \in DOMAIN ev : Label(p)
  \/ \E p \in DOMAIN ev : Return(p)
  \/ PostComment
  \/ HumanAddsLabel

Spec == Init /\ [][Next]_vars

\* handle with a client that lists the label-change history of a new pull
\* request.
InitHist ==
  /\ labels = <<>>
  /\ events = <<>>
  /\ prComments = <<>>
  /\ nextId = 1
  /\ \E sc \in Scenarios : changes = sc.changes /\ tree = sc.tree
  /\ cfg \in Configs
  /\ stable = FALSE
  /\ hook = [author |-> Author, body |-> <<>>, assignees |-> <<"bob">>]
  /\ ev = [p \in {1} |-> IdleEval]
  /\ nPosted = 0
  /\ nLabelOps = 0
  /\ nFails = 0
  /\ stream = <<>>
  /\ client = "listing"
  /\ webhook = NoHook

SpecHist == InitHist /\ [][Next]_vars

\* ---------------------------------------------- the core on bounded inputs
\* What a stream holds: issue comments and review submissions.
Comment(user, body) ==
  [kind |-> "issue", User |-> user, Body |-> body, State |-> ""]
Review(user, body, state) ==
  [kind |-> "review", User |-> user, Body |-> body, State |-> state]

Items ==
  {Comment(Author, Approve), Comment(Author, ApproveCancel),
   Comment(Author, Lgtm),
   Comment("bob", Approve), Comment("bob", ApproveCancel),
   Comment("bob", ApproveNoIssue), Comment("bob", Lgtm),
   Comment("bob", LgtmCancel), Comment("bob", CancelThenApprove),
   Comment(BotLogin, Approve), Comment(deprecatedBotNames[1], Approve),
   Review(deprecatedBotNames[2], NoBody, ReviewStateApproved),
   Review("bob", NoBody, ReviewStateApproved),
   Review("bob", NoBody, ReviewStateChangesRequested),
   Review("bob", NoBody, ReviewStateDismissed)}

Streams == UNION {[1..n -> Items] : n \in 0..MaxStream}

\* The issue comments and the reviews of a stream as the client lists them;
\* the position in the stream is the id and the time.
At(s) == [i \in 1..Len(s) |-> [item |-> s[i], at |-> i]]

IssueCommentsOf(s) ==
  LET sel == SelectSeq(At(s), LAMBDA x : x.item.kind = "issue")
  IN [i \in 1..Len(sel) |->
        [ID |-> sel[i].at, Body |-> sel[i].item.Body,
         User |-> sel[i].item.User, CreatedAt |-> sel[i].at]]

ReviewsOf(s) ==
  LET sel == SelectSeq(At(s), LAMBDA x : x.item.kind = "review")
  IN [i \in 1..Len(sel) |->
        [ID |-> sel[i].at, Body |-> sel[i].item.Body,
         User |-> sel[i].item.User, SubmittedAt |-> sel[i].at,
         State |-> sel[i].item.State]]

Ref(kind, org, num, fits) ==
  [kind |-> kind, org |-> org, num |-> num, fits |-> fits]

FoldPRs ==
  {[filenames |-> <<FileX>>, tree |-> TreeA, body |-> <<>>,
    IssueRequired |-> FALSE],
   [filenames |-> <<FileX, FileR>>, tree |-> TreeB, body |-> <<>>,
    IssueRequired |-> TRUE],
   [filenames |-> <<FileX, FileR>>, tree |-> TreeA,
    body |-> <<Ref("url", "other", 3, TRUE), Ref("hash", "", 7, TRUE)>>,
    IssueRequired |-> TRUE],
   [filenames |-> <<>>, tree |-> TreeA,
    body |-> <<Ref("hash", "", 9, FALSE), Ref("hash", "", 7, TRUE)>>,
    IssueRequired |-> TRUE]}

FoldLabels ==
  {[has |-> FALSE,
    listed |-> [err |-> FALSE,
                events |-> <<LabelEvent("labeled", "carol"),
                             LabelEvent("unlabeled", "carol")>>]],
   [has |-> TRUE,
    listed |-> [err |-> FALSE,
                events |-> <<LabelEvent("labeled", "carol"),
                             LabelEvent("labeled", BotLogin)>>]],
   [has |-> TRUE,
    listed |-> [err |-> FALSE,
                events |-> <<LabelEvent("labeled", BotLogin),
                             LabelEvent("labeled", "carol")>>]],
   [has |-> TRUE, listed |-> [err |-> TRUE, events |-> <<>>]]}

FoldOpts ==
  {[transformConfig(OrgName, [RequireSelfApproval |-> r,
                              ignoreReviewState |-> i])
      EXCEPT !.LgtmActsAsApprove = l] : r, i, l \in BOOLEAN}

InitFold ==
  /\ labels = <<>>
  /\ events = <<>>
  /\ prComments = <<>>
  /\ nextId = 1
  /\ changes = <<>>
  /\ tree = TreeA
  /\ hook = [author |-> Author, body |-> <<>>, assignees |-> <<"bob">>]
  /\ cfg = [RequireSelfApproval |-> FALSE, ignoreReviewState |-> FALSE]
  /\ nPosted = 0
  /\ nLabelOps = 0
  /\ nFails = 0
  /\ stable = FALSE
  /\ stream \in Streams
  /\ client = "ghclient"
  /\ webhook = NoHook
  /\ \E pr \in FoldPRs, lb \in FoldLabels, o \in FoldOpts :
       ev = [p \in {1} |->
               [IdleEval EXCEPT
                  !.pc = "fetched",
                  !.opts = [o EXCEPT !.IssueRequired = pr.IssueRequired],
                  !.pr = NewState(OrgName, "repo", "master", pr.body, Author,
                                  "url", 1, <<"bob">>),
                  !.repo = pr.tree,
                  !.filenames = pr.filenames,
                  !.hasApprovedLabel = lb.has,
                  !.botName = BotLogin,
                  !.issueComments = IssueCommentsOf(stream),
                  !.reviews = ReviewsOf(stream),
                  !.listed = lb.listed]]

\* handle, lines 164-209, on what the reads returned.
FoldApply(p) ==
  /\ ev[p].pc = "fetched"
  /\ ev' = [ev EXCEPT ![p] = evaluated(@, @.listed)]
  /\ UNCHANGED <<hosting, inputs, nPosted, nLabelOps, nFails, stable>>

NextFold == \E p \in DOMAIN ev : FoldApply(p)

SpecFold == InitFold /\ [][NextFold]_vars

\* ================================================================== claims
Evals == DOMAIN ev

\* The evaluations whose verdict has been computed.
Computed(p) == ev[p].ap # NoAp

Ops(calls) == [k \in 1..Len(calls) |-> calls[k].op]

HasOp(calls, op) == \E k \in 1..Len(calls) : calls[k].op = op

\* C1. Idempotence: an evaluation that follows one whose mutations all
\* succeeded, with no comment or label change by anyone since that one began,
\* creates no comment and adds or removes no label.
C1_Idempotent ==
  \A p \in Evals :
    (ev[p].rerun /\ ev[p].undisturbed) =>
      /\ ~HasOp(ev[p].calls, "CreateComment")
      /\ ~HasOp(ev[p].calls, "AddLabel")
      /\ ~HasOp(ev[p].calls, "RemoveLabel")

\* A second run has returned after a first run that made the PR approved.
C1_Witness ==
  \E p \in Evals :
    /\ ev[p].pc = "returned" /\ ev[p].ret = "nil"
    /\ ev[p].rerun /\ ev[p].undisturbed
    /\ IsApproved(ev[p].ap)
    /\ ev[p].hasApprovedLabel
    /\ Len(ev[p].notifications) = 1
    /\ ev[p].filenames # <<>>

\* ------------------------------------------------------------------- C2
Humans == {Author, "bob"}

\* An item is approval-relevant for the options: its author is no bot and it
\* holds an approve command, or an lgtm command when lgtm acts as approve, or
\* it is a review whose state counts.
IsCmd(l, names) == l.slash /\ ToUpper(l.name) \in names

ItemRelevant(it, o) ==
  /\ it.User \in Humans
  /\ \/ \E k \in 1..Len(it.Body.lines) :
          IsCmd(it.Body.lines[k],
                IF o.LgtmActsAsApprove THEN {"APPROVE", "LGTM"} ELSE {"APPROVE"})
     \/ /\ ~o.IgnoreReviewState.val
        /\ it.State \in {"APPROVED", "CHANGES_REQUESTED", "DISMISSED"}

\* The positions of the relevant items of user u, and the last of them.
RelevantAt(u, o) ==
  {k \in 1..Len(stream) : stream[k].User = u /\ ItemRelevant(stream[k], o)}

LastRelevant(u, o) ==
  stream[CHOOSE k \in RelevantAt(u, o) : \A j \in RelevantAt(u, o) : j <= k]

\* The command lines (approve or lgtm) of an item, in order.
CmdLines(it) ==
  SelectSeq(it.Body.lines, LAMBDA l : IsCmd(l, {"APPROVE", "LGTM"}))

IsCancel(l) == \E k \in 1..Len(l.args) : ToLower(l.args[k]) = "cancel"

\* The last relevant action of u is a cancel command / an approve command.
LastActionIsCancel(u, o) ==
  /\ RelevantAt(u, o) # {}
  /\ LET ls == CmdLines(LastRelevant(u, o))
     IN ls # <<>> /\ IsCancel(ls[Len(ls)])

LastActionIsApprove(u, o) ==
  /\ RelevantAt(u, o) # {}
  /\ LET ls == CmdLines(LastRelevant(u, o))
     IN ls # <<>> /\ ~IsCancel(ls[Len(ls)])
        /\ ToUpper(ls[Len(ls)].name) = "APPROVE"

\* C2. Last action wins: a user whose last relevant action is a cancel
\* command is not in the final approver set, whatever came before (the
\* author's implicit self-approval too); a user whose last relevant action
\* is an /approve is in it, also after a cancel.
C2_LastActionWins ==
  \A p \in Evals : Computed(p) =>
    \A u \in Humans :
      /\ LastActionIsCancel(u, ev[p].opts)
           => u \notin GetCurrentApproversSet(ev[p].ap)
      /\ LastActionIsApprove(u, ev[p].opts)
           => u \in GetCurrentApproversSet(ev[p].ap)

\* The author approves, then cancels, under implicit self-approval.
C2_Witness ==
  \E p \in Evals :
    /\ Computed(p)
    /\ HasSelfApproval(ev[p].opts)
    /\ stream = <<Comment(Author, Approve), Comment(Author, ApproveCancel)>>
    /\ Author \notin GetCurrentApproversSet(ev[p].ap)

\* ------------------------------------------------------------------- C3
\* The directories on the way from a file's directory up to the root.
IsPrefix(d, path) == Len(d) <= Len(path) /\ SubSeq(path, 1, Len(d)) = d

Declaring(t, f) == {d \in DOMAIN t : IsPrefix(d, DirOf(f))}

\* The nearest declaring directory of f is the longest of them.
Nearest(t, f) ==
  CHOOSE d \in Declaring(t, f) : \A x \in Declaring(t, f) : Len(x) <= Len(d)

Covered(t, f, approvers) ==
  Declaring(t, f) # {} /\ t[Nearest(t, f)] \cap approvers # {}

UserComments(e) ==
  SelectSeq(e.issueComments, LAMBDA c : c.User \in Humans)

OwnedByAuthorOnly(e) ==
  /\ Len(e.filenames) = 1
  /\ Declaring(e.repo, e.filenames[1]) # {}
  /\ e.repo[Nearest(e.repo, e.filenames[1])] = {e.pr.author}

HasApproveLine(body) ==
  \E k \in 1..Len(body.lines) : IsCmd(body.lines[k], {"APPROVE"})

BotIdentities == {BotLogin, "k8s-merge-robot", "openshift-merge-robot"}

WithoutBots(e) ==
  [e EXCEPT
     !.issueComments  = SelectSeq(@, LAMBDA c : c.User \notin BotIdentities),
     !.reviewComments = SelectSeq(@, LAMBDA c : c.User \notin BotIdentities),
     !.reviews        = SelectSeq(@, LAMBDA c : c.User \notin BotIdentities)]

\* C5. Bot exclusion: the comments and reviews of the bot and of its retired
\* predecessors do not change the approver set - it is the one the same
\* stream gives without them - and none of them is an approver.
C5_BotsExcluded ==
  \A p \in Evals : Computed(p) =>
    /\ ev[p].ap.approvers
         = approversHandlerOf(WithoutBots(ev[p]), ev[p].ap.ManuallyApproved).approvers
    /\ GetCurrentApproversSet(ev[p].ap) \cap BotIdentities = {}

\* A predecessor's /approve and another predecessor's approving review.
C5_Witness ==
  \E p \in Evals :
    /\ Computed(p)
    /\ ConsiderReviewState(ev[p].opts)
    /\ stream = <<Comment("k8s-merge-robot", Approve),
                  Review("openshift-merge-robot", NoBody, "APPROVED")>>
    /\ GetCurrentApproversSet(ev[p].ap) \cap BotIdentities = {}

\* ------------------------------------------------------------------- C6
\* The actor of the most recent "approved label added" event of a history.
LabelAddedAt(h) ==
  {k \in 1..Len(h) : h[k].Event = "labeled" /\ h[k].Label = "approved"}

HumanAddedLast(h) ==
  /\ LabelAddedAt(h) # {}
  /\ h[CHOOSE k \in LabelAddedAt(h) : \A j \in LabelAddedAt(h) : j <= k].Actor
       \notin BotIdentities

\* C6. Human override: when the approved label is on the PR and the last
\* "label added" event for it in the PR's history is a user's, the verdict is
\* approved whatever the coverage, and the evaluation does not remove the
\* label.
C6_HumanOverride ==
  \A p \in Evals :
    (Computed(p) /\ ev[p].hasApprovedLabel /\ HumanAddedLast(events)) =>
       /\ IsApproved(ev[p].ap)
       /\ ~HasOp(ev[p].calls, "RemoveLabel")

\* ------------------------------------------------------------------- C7
CountOp(calls, op) == Cardinality({k \in 1..Len(calls) : calls[k].op = op})

\* C7. Label reconciliation: an evaluation that returns success has called
\* AddLabel once iff the verdict is approved and the label was seen absent,
\* RemoveLabel once iff the verdict is not approved and the label was seen
\* present, and no label call otherwise; none is made before the last step
\* or by an evaluation that returns an error.
C7_LabelReconciliation ==
  \A p \in Evals :
    LET e == ev[p]
    IN /\ (e.pc # "returned" \/ e.ret = "error") =>
            CountOp(e.calls, "AddLabel") + CountOp(e.calls, "RemoveLabel") = 0
       /\ (e.pc = "returned" /\ e.ret = "nil") =>
            /\ CountOp(e.calls, "AddLabel") =
                 IF IsApproved(e.ap) /\ ~e.hasApprovedLabel THEN 1 ELSE 0
            /\ CountOp(e.calls, "RemoveLabel") =
                 IF ~IsApproved(e.ap) /\ e.hasApprovedLabel THEN 1 ELSE 0

\* An evaluation has removed a label it saw on an unapproved PR.
C7_Witness ==
  \E p \in Evals :
    /\ ev[p].pc = "returned" /\ ev[p].ret = "nil"
    /\ ev[p].hasApprovedLabel /\ ~IsApproved(ev[p].ap)
    /\ HasOp(ev[p].calls, "RemoveLabel")
    /\ ~hasApprovedLabelOf(transformLabels(labels))

\* ------------------------------------------------------------------- C8
\* The prior status comments among the comments the evaluation read.
PriorStatus(e) ==
  SelectSeq(e.issueComments, LAMBDA c :
    c.User \in BotIdentities /\ ToLower(c.Body.marker) = "[approvalnotifier]")

CommentOps(calls) ==
  SelectSeq(calls, LAMBDA c : c.op \in {"DeleteComment", "CreateComment"})

\* C8. Notification: with M the rendered message and L the last prior status
\* comment, an evaluation that returns success has made no DeleteComment and
\* no CreateComment call if L exists and holds M; otherwise one DeleteComment
\* for every prior status comment, then one CreateComment, whose comment is M.
C8_Notification ==
  \A p \in Evals : (ev[p].pc = "returned" /\ ev[p].ret = "nil") =>
    LET e     == ev[p]
        M     == GetMessage(e.ap)
        prior == PriorStatus(e)
        ops   == CommentOps(e.calls)
    IN IF prior # <<>> /\ BodyContains(prior[Len(prior)].Body, M)
       THEN ops = <<>>
       ELSE /\ Len(ops) = Len(prior) + 1
            /\ \A k \in 1..Len(prior) :
                 ops[k].op = "DeleteComment" /\ ops[k].id = prior[k].ID
            /\ ops[Len(ops)].op = "CreateComment"
            /\ ops[Len(ops)].ok =>
                 /\ prComments[Len(prComments)].Body = M
                 /\ prComments[Len(prComments)].User = BotLogin

\* Two prior status comments were deleted and the new one was created.
C8_Witness ==
  \E p \in Evals :
    /\ ev[p].pc = "returned" /\ ev[p].ret = "nil"
    /\ Len(PriorStatus(ev[p])) = 2
    /\ Ops(CommentOps(ev[p].calls))
         = <<"DeleteComment", "DeleteComment", "CreateComment">>

\* ------------------------------------------------------------------- C9
Reads == {"loadRepoOwners", "GetPullRequestChanges", "GetIssueLabels",
          "BotName", "ListIssueComments", "ListPullRequestComments",
          "ListReviews"}

\* C9. Fatal fetch errors: an evaluation in which a read has failed has
\* returned an error at once: it has computed no verdict and made no call
\* that deletes or creates a comment or adds or removes a label; and an
\* error is returned for no other reason.
C9_FetchErrorsFatal ==
  \A p \in Evals :
    LET e == ev[p]
    IN /\ e.failedAt # "" =>
            /\ e.failedAt \in Reads
            /\ e.pc = "returned" /\ e.ret = "error"
            /\ e.ap = NoAp
            /\ e.calls = <<>>
       /\ e.ret = "error" => e.failedAt # ""

\* The read of the PR's comments failed after the earlier reads succeeded.
C9_Witness ==
  \E p \in Evals :
    /\ ev[p].failedAt = "ListIssueComments"
    /\ ev[p].pc = "returned" /\ ev[p].ret = "error"
    /\ ev[p].botName = BotLogin

\* ------------------------------------------------------------------ C10
PlannedOps(e) ==
  (IF e.newMessage # NoMsg
   THEN [k \in 1..Len(e.notifications) |-> "DeleteComment"]
          \o <<"CreateComment">>
   ELSE <<>>)
  \o (IF IsApproved(e.ap) /\ ~e.hasApprovedLabel THEN <<"AddLabel">>
      ELSE IF ~IsApproved(e.ap) /\ e.hasApprovedLabel THEN <<"RemoveLabel">>
      ELSE <<>>)

\* C10. Non-fatal reconciliation errors: an evaluation in which a comment or
\* label call failed does not return an error; when it returns it has made
\* every call of its plan, each once and in order (the deletes, the create,
\* the label call), and it returns success.
C10_MutationErrorsNonFatal ==
  \A p \in Evals :
    LET e == ev[p]
    IN (\E k \in 1..Len(e.calls) : ~e.calls[k].ok) =>
         /\ e.ret # "error"
         /\ e.pc # "idle"
         /\ e.pc = "returned" =>
              /\ e.ret = "nil"
              /\ Ops(e.calls) = PlannedOps(e)
              /\ \A j, k \in 1..Len(e.calls) :
                   (j < k /\ e.calls[j].op = "DeleteComment"
                    /\ e.calls[k].op = "DeleteComment")
                     => e.calls[j].id # e.calls[k].id

\* A delete failed; the create and the label call were made all the same.
C10_Witness ==
  \E p \in Evals :
    /\ ev[p].pc = "returned" /\ ev[p].ret = "nil"
    /\ Len(ev[p].calls) = 3
    /\ ev[p].calls[1].op = "DeleteComment" /\ ~ev[p].calls[1].ok
    /\ ev[p].calls[2].op = "CreateComment" /\ ev[p].calls[2].ok
    /\ ev[p].calls[3].op = "AddLabel" /\ ev[p].calls[3].ok

\* ------------------------------------------------------------------ C11
\* The robot's two event handlers (robot.go, handlePREvent and
\* handleNoteEvent) call robot.handle directly; each delivery of an event is
\* one invocation, and two deliveries for the same pull request may overlap.
\* SpecConc runs two invocations against one pull request.
Handlers == {1, 2}

InitConc ==
  /\ labels = <<>>
  /\ events = <<>>
  /\ prComments = <<>>
  /\ nextId = 1
  /\ changes = <<[Filename |-> FileX]>>
  /\ tree = TreeA
  /\ hook = [author |-> Author, body |-> <<>>, assignees |-> <<"bob">>]
  /\ cfg = [RequireSelfApproval |-> TRUE, ignoreReviewState |-> FALSE]
  /\ ev = [p \in Handlers |-> IdleEval]
  /\ nPosted = 0
  /\ nLabelOps = 0
  /\ nFails = MaxFailures
  /\ stable = FALSE
  /\ stream = <<>>
  /\ client = "ghclient"
  /\ webhook = NoHook

\* The steps of the two invocations, and a user's comment; every remote call
\* succeeds.
NextConc ==
  \/ \E p \in DOMAIN ev : robot_handle(p)
  \/ \E p \in DOMAIN ev : GetPullRequestChanges(p)
  \/ \E p \in DOMAIN ev : GetIssueLabels(p)
  \/ \E p \in DOMAIN ev : BotName(p)
  \/ \E p \in DOMAIN ev : ListIssueComments(p)
  \/ \E p \in DOMAIN ev : ListPullRequestComments(p)
  \/ \E p \in DOMAIN ev : ListReviews(p)
  \/ \E p \in DOMAIN ev : Evaluate(p)
  \/ \E p \in DOMAIN ev : DeleteComment(p)
  \/ \E p \in DOMAIN ev : CreateComment(p)
  \/ \E p \in DOMAIN ev : Label(p)
  \/ \E p \in DOMAIN ev : Return(p)
  \/ PostComment

SpecConc == InitConc /\ [][NextConc]_vars

InProgress(p) == ev[p].pc \notin {"idle", "returned"}

\* C11. Per-PR serialization: at most one evaluation of the pull request is
\* in progress at any time.
C11_Serialized ==
  \A p, q \in DOMAIN ev : (InProgress(p) /\ InProgress(q)) => p = q

\* ------------------------------------------------------------------ C12
\* The evaluation reads the pull request of the approve example: by alice,
\* changing pkg/a/x.go, pkg/a owned by bob, self-approval required, no label,
\* and bob's "/approve" as its only comment.
ApproveExample(e) ==
  /\ e.pr.author = "alice"
  /\ e.filenames = <<FileX>>
  /\ e.repo = TreeA
  /\ ~HasSelfApproval(e.opts)
  /\ ~e.hasApprovedLabel
  /\ Len(e.issueComments) = 1
  /\ e.issueComments[1].User = "bob"
  /\ e.issueComments[1].Body = UserBody(<<Line("approve", <<>>)>>)

\* C12. Approve example: the evaluation's verdict is approved; it makes
\* exactly one CreateComment call, whose comment lists bob as approver, and
\* exactly one AddLabel call, and no RemoveLabel or DeleteComment call.
C12_ApproveExample ==
  \A p \in Evals :
    LET e == ev[p]
    IN (Computed(p) /\ ApproveExample(e)) =>
         /\ IsApproved(e.ap)
         /\ GetCurrentApproversSet(e.ap) = {"bob"}
         /\ e.newMessage = GetMessage(e.ap)
         /\ DOMAIN e.newMessage.msg.approvers = {"bob"}
         /\ CountOp(e.calls, "RemoveLabel") = 0
         /\ CountOp(e.calls, "DeleteComment") = 0
         /\ (e.pc = "returned" /\ e.ret = "nil") =>
              /\ CountOp(e.calls, "CreateComment") = 1
              /\ CountOp(e.calls, "AddLabel") = 1
              /\ Ops(e.calls) = <<"CreateComment", "AddLabel">>

\* The example's evaluation has returned, its comment and label in place.
C12_Witness ==
  \E p \in Evals :
    /\ Computed(p) /\ ApproveExample(ev[p])
    /\ ev[p].pc = "returned" /\ ev[p].ret = "nil" /\ AllOk(ev[p].calls)
    /\ labels = ApprovedBefore.labels
    /\ events = ApprovedBefore.events
    /\ prComments = ApprovedBefore.prComments
    /\ nextId = ApprovedBefore.nextId
    /\ prComments[2].Body = GetMessage(ev[p].ap)

\* ------------------------------------------------------------------ C13
\* The evaluation reads the pull request of the cancel example: the state
\* the approve example left, then bob's "/approve cancel".
CancelExample(e) ==
  /\ e.pr.author = "alice"
  /\ e.filenames = <<FileX>>
  /\ e.repo = TreeA
  /\ ~HasSelfApproval(e.opts)
  /\ e.hasApprovedLabel
  /\ Len(e.issueComments) = 3
  /\ e.issueComments[1].User = "bob"
  /\ e.issueComments[1].Body = UserBody(<<Line("approve", <<>>)>>)
  /\ e.issueComments[2].User = BotLogin
  /\ e.issueComments[2].Body.marker = ApprovalNotificationName
  /\ e.issueComments[2].Body.msg.approved
  /\ DOMAIN e.issueComments[2].Body.msg.approvers = {"bob"}
  /\ e.issueComments[3].User = "bob"
  /\ e.issueComments[3].Body = UserBody(<<Line("approve", <<"cancel">>)>>)

StatusComments ==
  SelectSeq(prComments, LAMBDA c :
    c.User \in BotIdentities /\ ToLower(c.Body.marker) = "[approvalnotifier]")

\* C13. Cancel example: the evaluation's verdict is not approved; when it
\* returns it has deleted the previous status comment, created one new one
\* and called RemoveLabel, each once; if these calls succeeded the pull
\* request carries one status comment, the new one, and no approved label.
C13_CancelExample ==
  \A p \in Evals :
    LET e == ev[p]
    IN (Computed(p) /\ CancelExample(e)) =>
         /\ ~IsApproved(e.ap)
         /\ GetCurrentApproversSet(e.ap) = {}
         /\ CountOp(e.calls, "AddLabel") = 0
         /\ (e.pc = "returned" /\ e.ret = "nil") =>
              /\ Ops(e.calls) = <<"DeleteComment", "CreateComment", "RemoveLabel">>
              /\ e.calls[1].id = e.issueComments[2].ID
              /\ AllOk(e.calls) =>
                   /\ Len(StatusComments) = 1
                   /\ StatusComments[1].Body = GetMessage(e.ap)
                   /\ ~StatusComments[1].Body.msg.approved
                   /\ ~hasApprovedLabelOf(transformLabels(labels))

\* The cancel example's evaluation has returned with all its calls made.
C13_Witness ==
  \E p \in Evals :
    /\ Computed(p) /\ CancelExample(ev[p])
    /\ ev[p].pc = "returned" /\ ev[p].ret = "nil" /\ AllOk(ev[p].calls)
    /\ Len(prComments) = 3
    /\ labels = <<>>

\* ------------------------------------------------------------------ C14
\* The core of handle on streams drawn from a given set of items.
StreamsOver(items) == UNION {[1..n -> items] : n \in 0..MaxStream}

NoLabel == [has |-> FALSE, listed |-> [err |-> FALSE, events |-> <<>>]]

FoldInputs(streams, prs, lbs, opts) ==
  /\ labels = <<>>
  /\ events = <<>>
  /\ prComments = <<>>
  /\ nextId = 1
  /\ changes = <<>>
  /\ tree = TreeA
  /\ hook = [author |-> Author, body |-> <<>>, assignees |-> <<"bob">>]
  /\ cfg = [RequireSelfApproval |-> FALSE, ignoreReviewState |-> FALSE]
  /\ nPosted = 0
  /\ nLabelOps = 0
  /\ nFails = 0
  /\ stable = FALSE
  /\ stream \in streams
  /\ client = "ghclient"
  /\ webhook = NoHook
  /\ \E pr \in prs, lb \in lbs, o \in opts :
       ev = [p \in {1} |->
               [IdleEval EXCEPT
                  !.pc = "fetched",
                  !.opts = [o EXCEPT !.IssueRequired = pr.IssueRequired],
                  !.pr = NewState(OrgName, "repo", "master", pr.body, Author,
                                  "url", 1, <<"bob">>),
                  !.repo = pr.tree,
                  !.filenames = pr.filenames,
                  !.hasApprovedLabel = lb.has,
                  !.botName = BotLogin,
                  !.issueComments = IssueCommentsOf(stream),
                  !.reviews = ReviewsOf(stream),
                  !.listed = lb.listed]]

\* Command lines with plain, combined and mixed-case arguments.
ArgItems ==
  {Comment("bob", UserBody(<<Line("approve", <<>>)>>)),
   Comment("bob", UserBody(<<Line("approve", <<"no-issue">>)>>)),
   Comment("bob", UserBody(<<Line("approve", <<"No-Issue">>)>>)),
   Comment("bob", UserBody(<<Line("approve", <<"no-issue", "please">>)>>)),
   Comment("bob", UserBody(<<Line("approve", <<"cancel">>)>>)),
   Comment("bob", UserBody(<<Line("approve", <<"CANCEL">>)>>)),
   Comment("bob", UserBody(<<Line("approve", <<"cancelled">>)>>)),
   Comment("bob", UserBody(<<Line("approve", <<"please", "cancel">>)>>)),
   Comment("bob", UserBody(<<Line("lgtm", <<"no-issue", "please">>)>>)),
   Comment("bob", UserBody(<<Line("lgtm", <<"please", "cancel">>)>>)),
   Comment(Author, UserBody(<<Line("approve", <<"no-issue", "please">>)>>)),
   Comment(Author, UserBody(<<Line("approve", <<"please", "cancel">>)>>))}

ArgPRs ==
  {[filenames |-> <<FileX>>, tree |-> TreeA, body |-> <<>>,
    IssueRequired |-> TRUE],
   [filenames |-> <<FileX>>, tree |-> TreeA, body |-> <<>>,
    IssueRequired |-> FALSE]}

InitArgs == FoldInputs(StreamsOver(ArgItems), ArgPRs, {NoLabel}, FoldOpts)

SpecArgs == InitArgs /\ [][NextFold]_vars

\* The argument of a command line holds a token as a substring, in any case.
ArgsHold(l, tok) ==
  \E k \in 1..Len(l.args) :
    \/ ToLower(l.args[k]) = tok
    \/ tok = "cancel" /\ ToLower(l.args[k]) = "cancelled"

\* The last approve or lgtm command line of u's last relevant item.
HasLastCmd(u, o) ==
  RelevantAt(u, o) # {} /\ CmdLines(LastRelevant(u, o)) # <<>>

LastCmd(u, o) ==
  LET ls == CmdLines(LastRelevant(u, o)) IN ls[Len(ls)]

\* C14. Argument matching: a user whose last command line's argument holds
\* "cancel" is not an approver; a user whose last command line is an approve
\* (or an lgtm, when lgtm acts as approve) whose argument holds "no-issue"
\* and not "cancel" is an approver recorded as waiving the issue.
C14_ArgumentSubstring ==
  \A p \in Evals : Computed(p) =>
    \A u \in Humans : HasLastCmd(u, ev[p].opts) =>
      LET l == LastCmd(u, ev[p].opts)
      IN /\ ArgsHold(l, "cancel") =>
              u \notin GetCurrentApproversSet(ev[p].ap)
         /\ (/\ ~ArgsHold(l, "cancel")
             /\ ArgsHold(l, "no-issue")
             /\ (ToUpper(l.name) = "APPROVE" \/ ev[p].opts.LgtmActsAsApprove)) =>
              /\ u \in GetCurrentApproversSet(ev[p].ap)
              /\ ev[p].ap.approvers[u].NoIssue

\* The part of C14 about "cancel" alone.
C14_CancelSubstring ==
  \A p \in Evals : Computed(p) =>
    \A u \in Humans : HasLastCmd(u, ev[p].opts) =>
      (ArgsHold(LastCmd(u, ev[p].opts), "cancel") =>
         u \notin GetCurrentApproversSet(ev[p].ap))

\* ------------------------------------------------------------------ C15
\* What an evaluation read, with the /lgtm lines taken out of every body.
StripLgtm(body) ==
  [body EXCEPT !.lines = SelectSeq(@, LAMBDA l : ~IsCmd(l, {"LGTM"}))]

WithoutLgtm(e) ==
  [e EXCEPT
     !.issueComments  = [k \in 1..Len(@) |-> [@[k] EXCEPT !.Body = StripLgtm(@)]],
     !.reviewComments = [k \in 1..Len(@) |-> [@[k] EXCEPT !.Body = StripLgtm(@)]],
     !.reviews        = [k \in 1..Len(@) |-> [@[k] EXCEPT !.Body = StripLgtm(@)]]]

\* C15. LGTM gating: when lgtm does not act as approve, the approver set is
\* the one the same comments and reviews give without their /lgtm lines, and
\* nobody is recorded as approving by lgtm.
C15_LgtmGated ==
  \A p \in Evals : (Computed(p) /\ ~ev[p].opts.LgtmActsAsApprove) =>
    /\ LGTMers(ev[p].ap) = {}
    /\ ev[p].ap.approvers
         = approversHandlerOf(WithoutLgtm(ev[p]), ev[p].ap.ManuallyApproved).approvers

\* ------------------------------------------------------------------ C16
\* The last relevant item of u is a review in the given state (any case)
\* whose body holds no approve or lgtm command line.
LastIsReviewIn(u, o, state) ==
  /\ RelevantAt(u, o) # {}
  /\ LastRelevant(u, o).kind = "review"
  /\ ToUpper(LastRelevant(u, o).State) = state
  /\ CmdLines(LastRelevant(u, o)) = <<>>

\* C16. Dismissed review retracts approval: when review state is considered,
\* a user whose last relevant action is a dismissed review is not in the
\* final approver set.
C16_DismissedRetracts ==
  \A p \in Evals : (Computed(p) /\ ConsiderReviewState(ev[p].opts)) =>
    \A u \in Humans :
      LastIsReviewIn(u, ev[p].opts, "DISMISSED")
        => u \notin GetCurrentApproversSet(ev[p].ap)

\* ------------------------------------------------------------------ C17
\* Review submissions in every state, in the form the review API returns
\* (uppercase) and in the form the review webhook delivers (lowercase), with
\* and without command lines, and comments beside them.
ReviewItems ==
  {Review("bob", NoBody, ReviewStateApproved),
   Review("bob", NoBody, ReviewStateChangesRequested),
   Review("bob", NoBody, ReviewStateDismissed),
   Review("bob", NoBody, "COMMENTED"),
   Review("bob", NoBody, "approved"),
   Review("bob", NoBody, "changes_requested"),
   Review("bob", Approve, "COMMENTED"),
   Review("bob", ApproveCancel, ReviewStateApproved),
   Review(Author, NoBody, ReviewStateApproved),
   Review(Author, NoBody, ReviewStateChangesRequested),
   Comment("bob", Approve),
   Comment("bob", ApproveCancel)}

ReviewPRs ==
  {[filenames |-> <<FileX>>, tree |-> TreeA, body |-> <<>>,
    IssueRequired |-> FALSE]}

InitReview ==
  FoldInputs(StreamsOver(ReviewItems), ReviewPRs, {NoLabel}, FoldOpts)

SpecReview == InitReview /\ [][NextFold]_vars

\* The last relevant item of u is a review whose state is the given constant
\* and whose body holds no approve or lgtm command line.
LastIsReview(u, o, state) ==
  /\ RelevantAt(u, o) # {}
  /\ LastRelevant(u, o).kind = "review"
  /\ LastRelevant(u, o).State = state
  /\ CmdLines(LastRelevant(u, o)) = <<>>

\* The policy considers review state: it is not told to ignore it.
StateConsidered(o) == ~(o.IgnoreReviewState.set /\ o.IgnoreReviewState.val)

\* What an evaluation read, with the state of every review blanked.
WithoutStates(e) ==
  [e EXCEPT
     !.reviews = [k \in 1..Len(@) |-> [@[k] EXCEPT !.State = ""]]]

\* C17. Review-state mapping: when review state is considered, a user whose
\* last relevant action is an approved review is in the approver set and one
\* whose last relevant action is a changes-requested review is not; when it
\* is ignored, the approver set is the one the same reviews give with their
\* states blanked.
C17_ReviewStateMapping ==
  \A p \in Evals : Computed(p) =>
    IF StateConsidered(ev[p].opts)
    THEN \A u \in Humans :
           /\ LastIsReview(u, ev[p].opts, ReviewStateApproved)
                => u \in GetCurrentApproversSet(ev[p].ap)
           /\ LastIsReview(u, ev[p].opts, ReviewStateChangesRequested)
                => u \notin GetCurrentApproversSet(ev[p].ap)
    ELSE ev[p].ap.approvers
           = approversHandlerOf(WithoutStates(ev[p]),
                                ev[p].ap.ManuallyApproved).approvers

\* bob's approving review, then his review requesting changes.
C17_Witness ==
  \E p \in Evals :
    /\ Computed(p)
    /\ StateConsidered(ev[p].opts)
    /\ ~HasSelfApproval(ev[p].opts)
    /\ stream = <<Review("bob", NoBody, ReviewStateApproved),
                  Review("bob", NoBody, ReviewStateChangesRequested)>>
    /\ GetCurrentApproversSet(ev[p].ap) = {}

\* ------------------------------------------------------------------ C18
\* What an evaluation read, with the state of every review in uppercase.
Uppercased(e) ==
  [e EXCEPT
     !.reviews = [k \in 1..Len(@) |-> [@[k] EXCEPT !.State = ToUpper(@)]]]

\* C18. Review-state case-insensitivity: the approver set is the one the
\* same reviews give with their states written in uppercase.
C18_StateCaseInsensitive ==
  \A p \in Evals : Computed(p) =>
    ev[p].ap.approvers
      = approversHandlerOf(Uppercased(ev[p]), ev[p].ap.ManuallyApproved).approvers

\* ------------------------------------------------------------------ C19
\* The user has commented with an approve or lgtm command line.
Commanded(e, u) ==
  \E k \in 1..Len(e.issueComments) :
    /\ e.issueComments[k].User = u
    /\ \E j \in 1..Len(e.issueComments[k].Body.lines) :
         IsCmd(e.issueComments[k].Body.lines[j], {"APPROVE", "LGTM"})

\* C19. Assignees as hints: every assignee of the pull request that triggers
\* robot.handle is a suggested approver of the evaluation, and an assignee is
\* in the approver set only through a command of their own.
C19_AssigneesAreHints ==
  \A p \in Evals : Computed(p) =>
    \A k \in 1..Len(hook.assignees) :
      /\ hook.assignees[k] \in ev[p].ap.assignees
      /\ hook.assignees[k] \in GetCurrentApproversSet(ev[p].ap)
           => Commanded(ev[p], hook.assignees[k])

\* The part of C19 about the approver set alone.
C19_AssigneesNotApprovers ==
  \A p \in Evals : Computed(p) =>
    \A k \in 1..Len(hook.assignees) :
      hook.assignees[k] \in GetCurrentApproversSet(ev[p].ap)
        => Commanded(ev[p], hook.assignees[k])

\* ------------------------------------------------------------------ C20
\* The three lists as a client may return them: in any order of time, with
\* equal times within a list and across lists.
TimeLists == UNION {[1..n -> 1..MaxStream] : n \in 0..MaxStream}

IssueCommentsAt(ts) ==
  [k \in 1..Len(ts) |->
     [ID |-> 10 + k, Body |-> NoBody, User |-> "bob", CreatedAt |-> ts[k]]]

ReviewCommentsAt(ts) ==
  [k \in 1..Len(ts) |->
     [ID |-> 20 + k, Body |-> NoBody, User |-> "bob", CreatedAt |-> ts[k]]]

ReviewsAt(ts) ==
  [k \in 1..Len(ts) |->
     [ID |-> 30 + k, Body |-> NoBody, User |-> "bob", SubmittedAt |-> ts[k],
      State |-> ReviewStateApproved]]

InitAgg ==
  /\ labels = <<>>
  /\ events = <<>>
  /\ prComments = <<>>
  /\ nextId = 1
  /\ changes = <<>>
  /\ tree = TreeA
  /\ hook = [author |-> Author, body |-> <<>>, assignees |-> <<"bob">>]
  /\ cfg = [RequireSelfApproval |-> FALSE, ignoreReviewState |-> FALSE]
  /\ nPosted = 0
  /\ nLabelOps = 0
  /\ nFails = 0
  /\ stable = FALSE
  /\ stream = <<>>
  /\ client = "ghclient"
  /\ webhook = NoHook
  /\ \E ics \in TimeLists, rcs \in TimeLists, rvs \in TimeLists :
       ev = [p \in {1} |->
               [IdleEval EXCEPT
                  !.pc = "fetched",
                  !.opts = transformConfig(OrgName, cfg),
                  !.pr = NewState(OrgName, "repo", "master", <<>>, Author,
                                  "url", 1, <<>>),
                  !.repo = TreeA,
                  !.filenames = <<FileX>>,
                  !.botName = BotLogin,
                  !.issueComments = IssueCommentsAt(ics),
                  !.reviewComments = ReviewCommentsAt(rcs),
                  !.reviews = ReviewsAt(rvs)]]

SpecAgg == InitAgg /\ [][NextFold]_vars

\* The identifiers of a list, and the place of an identifier in the order
\* before sorting: review comments, then issue comments, then reviews.
IDs(xs) == {xs[k].ID : k \in 1..Len(xs)}

PreSort(e) ==
  [k \in 1..(Len(e.reviewComments) + Len(e.issueComments) + Len(e.reviews)) |->
     IF k <= Len(e.reviewComments)
     THEN [ID |-> e.reviewComments[k].ID, at |-> e.reviewComments[k].CreatedAt,
           state |-> ""]
     ELSE IF k <= Len(e.reviewComments) + Len(e.issueComments)
     THEN LET c == e.issueComments[k - Len(e.reviewComments)]
          IN [ID |-> c.ID, at |-> c.CreatedAt, state |-> ""]
     ELSE LET r == e.reviews[k - Len(e.reviewComments) - Len(e.issueComments)]
          IN [ID |-> r.ID, at |-> r.SubmittedAt, state |-> r.State]]

PlaceOf(e, id) == CHOOSE k \in DOMAIN PreSort(e) : PreSort(e)[k].ID = id

\* C20. Comment aggregation: the unified stream of an evaluation holds every
\* issue comment, review comment and review once, with its time (submission
\* time for a review), in ascending order of time, items of equal time in
\* their order before sorting; only reviews carry a review state.
C20_Aggregation ==
  \A p \in Evals : Computed(p) =>
    LET e   == ev[p]
        out == aggregate(e.issueComments, e.reviewComments, e.reviews)
    IN /\ Len(out) = Len(PreSort(e))
       /\ IDs(out) = IDs(PreSort(e))
       /\ \A k \in 1..Len(out) :
            /\ out[k].CreatedAt = PreSort(e)[PlaceOf(e, out[k].ID)].at
            /\ out[k].ReviewState = PreSort(e)[PlaceOf(e, out[k].ID)].state
            /\ out[k].ReviewState # "" <=> out[k].ID \in IDs(e.reviews)
       /\ \A j, k \in 1..Len(out) : j < k =>
            /\ out[j].CreatedAt <= out[k].CreatedAt
            /\ out[j].CreatedAt = out[k].CreatedAt
                 => PlaceOf(e, out[j].ID) < PlaceOf(e, out[k].ID)

\* An issue comment, a review comment and a review of one time, and an
\* earlier issue comment listed after the later one.
C20_Witness ==
  \E p \in Evals :
    /\ Computed(p)
    /\ ev[p].issueComments = IssueCommentsAt(<<2, 1>>)
    /\ ev[p].reviewComments = ReviewCommentsAt(<<2>>)
    /\ ev[p].reviews = ReviewsAt(<<2>>)
    /\ LET out == aggregate(ev[p].issueComments, ev[p].reviewComments,
                            ev[p].reviews)
       IN [k \in 1..Len(out) |-> out[k].ID] = <<12, 21, 11, 31>>

\* ------------------------------------------------------------------ C21
\* A pull request by alice changing pkg/a/x.go, owned by bob, under implicit
\* self-approval, and the status comment an evaluation of it renders.
NotifPR == NewState(OrgName, "repo", "master", <<>>, Author, "url", 1, <<>>)

NotifOpts ==
  transformConfig(OrgName, [RequireSelfApproval |-> FALSE,
                            ignoreReviewState |-> FALSE])

CurrentBody == GetMessage(configure(<<FileX>>, TreeA, NotifOpts, NotifPR, FALSE))

\* The issue comments as a client may list them: status comments by the bot
\* or a predecessor, holding the current message or an older one, listed in
\* any order of their creation times.
NotifEntries ==
  [body : {CurrentBody, LegacyNotification.Body},
   user : {BotLogin, deprecatedBotNames[1]},
   at   : 1..MaxStream]

NotifLists == UNION {[1..n -> NotifEntries] : n \in 0..MaxStream}

NotifCommentsOf(l) ==
  [k \in 1..Len(l) |->
     [ID |-> 40 + k, Body |-> l[k].body, User |-> l[k].user,
      CreatedAt |-> l[k].at]]

InitNotif ==
  /\ labels = <<>>
  /\ events = <<>>
  /\ prComments = <<>>
  /\ nextId = 1
  /\ changes = <<>>
  /\ tree = TreeA
  /\ hook = [author |-> Author, body |-> <<>>, assignees |-> <<"bob">>]
  /\ cfg = [RequireSelfApproval |-> FALSE, ignoreReviewState |-> FALSE]
  /\ nPosted = 0
  /\ nLabelOps = 0
  /\ nFails = 0
  /\ stable = FALSE
  /\ stream = <<>>
  /\ client = "ghclient"
  /\ webhook = NoHook
  /\ \E l \in NotifLists :
       ev = [p \in {1} |->
               [IdleEval EXCEPT
                  !.pc = "fetched",
                  !.opts = NotifOpts,
                  !.pr = NotifPR,
                  !.repo = TreeA,
                  !.filenames = <<FileX>>,
                  !.botName = BotLogin,
                  !.issueComments = NotifCommentsOf(l)]]

SpecNotif == InitNotif /\ [][NextFold]_vars

\* The prior status comments have pairwise different creation times, and the
\* most recent of them.
DistinctTimes(cs) ==
  \A j, k \in 1..Len(cs) : j # k => cs[j].CreatedAt # cs[k].CreatedAt

MostRecent(cs) ==
  cs[CHOOSE k \in 1..Len(cs) : \A j \in 1..Len(cs) :
       cs[j].CreatedAt <= cs[k].CreatedAt]

\* C21. Most recent prior notification: a new status comment is withheld
\* exactly when the prior status comment of greatest creation time holds the
\* rendered message, in whatever order the comments were listed.
C21_MostRecentNotification ==
  \A p \in Evals :
    (Computed(p) /\ DistinctTimes(PriorStatus(ev[p]))) =>
      LET e     == ev[p]
          prior == PriorStatus(e)
      IN IF prior = <<>>
         THEN e.newMessage = GetMessage(e.ap)
         ELSE e.newMessage = NoMsg
                <=> BodyContains(MostRecent(prior).Body, GetMessage(e.ap))

\* The same, for comments listed in ascending order of creation time.
C21_LastListedNotification ==
  \A p \in Evals :
    (Computed(p) /\ DistinctTimes(PriorStatus(ev[p]))
       /\ \A j, k \in 1..Len(ev[p].issueComments) :
            j < k => ev[p].issueComments[j].CreatedAt
                       < ev[p].issueComments[k].CreatedAt) =>
      LET e     == ev[p]
          prior == PriorStatus(e)
      IN IF prior = <<>>
         THEN e.newMessage = GetMessage(e.ap)
         ELSE e.newMessage = NoMsg
                <=> BodyContains(MostRecent(prior).Body, GetMessage(e.ap))

\* ------------------------------------------------------------------ C22
\* C22. History-lookup errors are non-fatal: when the label is present and
\* listing the label-change history fails, the override is not set, the
\* verdict is the coverage verdict, and the evaluation goes on to its
\* reconciliation without an error.
C22_HistoryErrorNonFatal ==
  \A p \in Evals :
    LET e == ev[p]
    IN (Computed(p) /\ e.hasApprovedLabel /\ e.listed.err) =>
         /\ ~e.ap.ManuallyApproved
         /\ IsApproved(e.ap) <=>
              /\ \A k \in 1..Len(e.filenames) :
                   Covered(e.repo, e.filenames[k], GetCurrentApproversSet(e.ap))
              /\ \/ ~e.opts.IssueRequired
                 \/ e.ap.AssociatedIssue # 0
                 \/ NoIssueApprovers(e.ap) # {}
         /\ e.failedAt = "" /\ e.ret # "error"
         /\ e.pc \in {"DeleteComment", "CreateComment", "Label", "returned"}

\* The history could not be listed for a labelled pull request that bob, the
\* owner, has not approved: the verdict is not approved.
C22_Witness ==
  \E p \in Evals :
    /\ Computed(p)
    /\ ev[p].hasApprovedLabel /\ ev[p].listed.err
    /\ ev[p].filenames = <<FileX>> /\ ev[p].repo = TreeA
    /\ stream = <<>>
    /\ ~IsApproved(ev[p].ap)
    /\ ev[p].pc = "CreateComment"

\* ------------------------------------------------------------------ C23
Consulted(p) == ev[p].consults # <<>>

\* C23. Memoized override check: in one evaluation the label-change history
\* is listed at most once, and not at all without the approval label; every
\* consultation of the override returns the value found at the first one,
\* which is the verdict's override; an evaluation that has not consulted the
\* override yet holds no value and has listed nothing.
C23_MemoizedOverride ==
  \A p \in Evals :
    LET e == ev[p]
    IN /\ e.nListEvents <= 1
       /\ ~e.hasApprovedLabel => e.nListEvents = 0
       /\ Consulted(p) =>
            /\ e.cache.set
            /\ e.cache.val = findOut(e.hasApprovedLabel, e.listed, e.botName)
            /\ \A k \in 1..Len(e.consults) : e.consults[k] = e.cache.val
            /\ e.ap.ManuallyApproved = e.cache.val
            /\ e.hasApprovedLabel => e.nListEvents = 1
       /\ ~Consulted(p) => e.cache = NilPtr /\ e.nListEvents = 0

\* A second evaluation of a pull request that carol labelled by hand after
\* the first: it consulted the override twice, listed the history once and
\* found the label to be carol's.
C23_Witness ==
  \E p \in Evals :
    /\ ev[p].pc = "returned" /\ ev[p].ret = "nil"
    /\ ev[p].hasApprovedLabel
    /\ Len(ev[p].consults) = 2
    /\ ev[p].nListEvents = 1
    /\ ev[p].cache = Ptr(TRUE)
    /\ ev[p].listed.events # <<>>

\* ------------------------------------------------------------------ C24
\* The remote calls of a running evaluation. Every remote call returns, so
\* a call that stays possible is made.
Remote(p) ==
  \/ GetPullRequestChanges(p)
  \/ GetIssueLabels(p)
  \/ BotName(p)
  \/ ListIssueComments(p)
  \/ ListPullRequestComments(p)
  \/ ListReviews(p)
  \/ DeleteComment(p)
  \/ CreateComment(p)
  \/ Label(p)

\* WF_vars(Evaluate(p)) written without ENABLED: Evaluate(p) is possible
\* exactly while the evaluation stands at it, and it moves the evaluation on.
\* The computation between the reads and the reconciliation is local.
LocalFair(p) == []<>(ev[p].pc # "Evaluate")

\* alice's change of pkg/a/x.go, which bob owns.
InitLive ==
  /\ Init
  /\ changes = <<[Filename |-> FileX]>>
  /\ tree = TreeA
  /\ cfg = [RequireSelfApproval |-> TRUE, ignoreReviewState |-> FALSE]

SpecLive == InitLive /\ [][Next]_vars /\ WF_vars(Remote(1)) /\ LocalFair(1)

\* The statements of handle in the order of the code.
Order ==
  <<"GetPullRequestChanges", "GetIssueLabels", "BotName", "ListIssueComments",
    "ListPullRequestComments", "ListReviews", "Evaluate", "DeleteComment",
    "CreateComment", "Label", "returned", "idle">>

Pos(pc) == CHOOSE k \in 1..Len(Order) : Order[k] = pc

\* A remote call was made or the evaluation moved.
Stepped(p) ==
  \/ ev[p].pc # ev'[p].pc
  \/ ev[p].calls # ev'[p].calls
  \/ nFails # nFails'

\* The evaluation moved forward: to a later statement, or to the next
\* notification of the deletion loop.
Advanced(p) ==
  \/ Pos(ev'[p].pc) > Pos(ev[p].pc)
  \/ /\ ev[p].pc = "DeleteComment" /\ ev'[p].pc = "DeleteComment"
     /\ ev'[p].i = ev[p].i + 1
     /\ ev'[p].i <= Len(ev[p].notifications)

\* C24. Termination: when every remote call returns, an evaluation that has
\* started returns; each of its steps moves it forward in the code, so no
\* call is retried and no statement is waited at, and it returns an error
\* only from a failed read and success only from the label step.
C24_Termination ==
  /\ (ev[1].pc # "idle") ~> (ev[1].pc = "returned")
  /\ [][(ev[1].pc # "idle" /\ Stepped(1)) =>
          /\ Advanced(1)
          /\ ev'[1].pc = "returned" =>
               \/ ev'[1].ret = "error" /\ ev[1].pc \in Reads
               \/ ev'[1].ret = "nil" /\ ev[1].pc = "Label"]_vars

\* An evaluation that ran through all of its steps: it deleted the old
\* status comment, posted a new one, added the label and returned success.
C24_Witness ==
  /\ ev[1].pc = "returned" /\ ev[1].ret = "nil"
  /\ [k \in 1..Len(ev[1].calls) |-> ev[1].calls[k].op]
       = <<"DeleteComment", "CreateComment", "AddLabel">>

\* ------------------------------------------------------------------ C25
\* The events the hosting service sends while the robot is registered, other
\* than those of the comments made on the pull request.
MaxEvents == 2

\* robot.go: the name the process runs under; newRobot is given the name
\* the robot compares commenters with.
robot_botName == "approve"

ActionOpen == "open"
PRActionChangedSourceBranch == "source_branch_changed"

NoteEvent(creating, isPR, commenter, body) ==
  [kind |-> "note", action |-> "", creating |-> creating, isPR |-> isPR,
   commenter |-> commenter, body |-> body, own |-> commenter = BotLogin]

PullRequestEvent(action) ==
  [kind |-> "pr", action |-> action, creating |-> FALSE, isPR |-> TRUE,
   commenter |-> "", body |-> Lgtm, own |-> FALSE]

isApproveCommandAlways(comment, lgtmActsAsApprove) == TRUE

\* isApproveCommand of the robot (src/approve.go).
isApproveCommand(comment, lgtmActsAsApprove) ==
  \E k \in 1..Len(CommandMatches(comment)) :
    LET cmd == ToUpper(CommandMatches(comment)[k].name)
    IN cmd = approveCommand \/ (cmd = lgtmCommand /\ lgtmActsAsApprove)

\* handleNoteEvent, lines 75-88: whether it goes on to robot.handle.
noteStarts(name, e) ==
  IF ~e.creating \/ ~e.isPR THEN FALSE
  ELSE IF name = e.commenter \/ ~isApproveCommand(e.body, FALSE) THEN FALSE
  ELSE TRUE

\* handlePREvent, lines 59-62.
prStarts(e) ==
  ~(~(e.action = ActionOpen \/ e.action = PRActionChangedSourceBranch))

Handled(e, starts) ==
  [webhook EXCEPT !.queue = Tail(@),
                  !.handled = Append(@, [event |-> e, started |-> starts]),
                  !.nEvals = IF starts THEN @ + 1 ELSE @]

handleNoteEvent(p) ==
  /\ webhook.queue # <<>>
  /\ Head(webhook.queue).kind = "note"
  /\ ev[p].pc = "idle"
  /\ LET e      == Head(webhook.queue)
         starts == noteStarts(webhook.botName, e)
     IN /\ webhook' = Handled(e, starts)
        /\ IF starts THEN bot_handle(p)
           ELSE UNCHANGED <<ev, nFails, hosting, nPosted, nLabelOps, stable>>
  /\ UNCHANGED <<changes, tree, hook, cfg, stream, client>>

handlePREvent(p) ==
  /\ webhook.queue # <<>>
  /\ Head(webhook.queue).kind = "pr"
  /\ ev[p].pc = "idle"
  /\ LET e      == Head(webhook.queue)
         starts == prStarts(e)
     IN /\ webhook' = Handled(e, starts)
        /\ IF starts THEN bot_handle(p)
           ELSE UNCHANGED <<ev, nFails, hosting, nPosted, nLabelOps, stable>>
  /\ UNCHANGED <<changes, tree, hook, cfg, stream, client>>

\* The hosting service sends the note event of a comment when the comment is
\* created, whoever created it.
AllEmitted == webhook.emitted = nextId - 1

Emit ==
  /\ ~AllEmitted
  /\ \E k \in 1..Len(prComments) :
       /\ prComments[k].Id = webhook.emitted + 1
       /\ webhook' = [webhook EXCEPT
                        !.emitted = @ + 1,
                        !.queue = Append(@, NoteEvent(TRUE, TRUE,
                                               prComments[k].User,
                                               prComments[k].Body))]
  /\ UNCHANGED <<hosting, changes, tree, hook, cfg, stream, client, ev,
                 nPosted, nLabelOps, nFails, stable>>

Sent(e) ==
  /\ EnvMayAct
  /\ webhook.nEvents < MaxEvents
  /\ webhook' = [webhook EXCEPT !.nEvents = @ + 1, !.queue = Append(@, e)]
  /\ UNCHANGED <<hosting, changes, tree, hook, cfg, stream, client, ev,
                 nPosted, nLabelOps, nFails, stable>>

\* The pull request is opened, gets new commits, or is closed.
PREvent ==
  \E action \in {ActionOpen, PRActionChangedSourceBranch, "close"} :
    Sent(PullRequestEvent(action))

\* A comment is edited, or made on an issue.
OtherNote ==
  \E creating, isPR \in BOOLEAN :
    /\ ~(creating /\ isPR)
    /\ Sent(NoteEvent(creating, isPR, "bob", Approve))

\* A user comments without a command of the robot.
PostOther ==
  /\ EnvMayAct
  /\ webhook.nEvents < MaxEvents
  /\ prComments' = Append(prComments,
                      [Id |-> nextId, Body |-> Lgtm, User |-> "bob",
                       CreatedAt |-> nextId])
  /\ nextId' = nextId + 1
  /\ webhook' = [webhook EXCEPT !.nEvents = @ + 1]
  /\ stable' = FALSE
  /\ ev' = Disturbed
  /\ UNCHANGED <<labels, events, changes, tree, hook, cfg, stream, client,
                 nPosted, nLabelOps, nFails>>

InitHook ==
  /\ labels = <<>>
  /\ events = <<>>
  /\ prComments = <<>>
  /\ nextId = 1
  /\ changes = <<[Filename |-> FileX]>>
  /\ tree \in {TreeA, TreeB}
  /\ cfg = [RequireSelfApproval |-> FALSE, ignoreReviewState |-> FALSE]
  /\ stable = FALSE
  /\ hook = [author |-> Author, body |-> <<>>, assignees |-> <<"bob">>]
  /\ ev = [p \in {1} |-> IdleEval]
  /\ nPosted = 0
  /\ nLabelOps = 0
  /\ nFails = 0
  /\ stream = <<>>
  /\ client = "ghclient"
  /\ \E name \in {BotLogin, robot_botName} :
       webhook = [NoHook EXCEPT !.botName = name]

NextHook ==
  \/ Emit
  \/ /\ AllEmitted
     /\ \/ PREvent
        \/ OtherNote
        \/ PostOther
        \/ PostComment
        \/ \E p \in DOMAIN ev : handleNoteEvent(p)
        \/ \E p \in DOMAIN ev : handlePREvent(p)
        \/ \E p \in DOMAIN ev : Remote(p)
        \/ \E p \in DOMAIN ev : Evaluate(p)
        \/ \E p \in DOMAIN ev : Return(p)

SpecHook == InitHook /\ [][NextHook]_vars

HandledAt(k) == webhook.handled[k]

\* C25. No self-triggering loop: a note event has started an evaluation only
\* if it reports a comment created on a pull request by someone other than
\* the bot whose text has an /approve command line; the event of a status
\* comment posted by an evaluation has started none; and no more evaluations
\* have started than events came from outside.
C25_NoSelfTrigger ==
  LET n == Len(webhook.handled)
  IN /\ \A k \in 1..n :
          (HandledAt(k).started /\ HandledAt(k).event.kind = "note") =>
            /\ HandledAt(k).event.creating
            /\ HandledAt(k).event.isPR
            /\ HandledAt(k).event.commenter # BotLogin
            /\ HasApproveLine(HandledAt(k).event.body)
     /\ \A k \in 1..n : HandledAt(k).event.own => ~HandledAt(k).started
     /\ webhook.nEvals
          <= Cardinality({k \in 1..n : ~HandledAt(k).event.own})
     /\ webhook.nEvals
          = Cardinality({k \in 1..n : HandledAt(k).started})

\* bob's "/approve" started an evaluation, the evaluation posted its status
\* comment, and the event of that comment reached the robot, which compares
\* commenters with a name that is not the bot's login, and started nothing.
C25_Witness ==
  /\ webhook.botName # BotLogin
  /\ \E j, k \in 1..Len(webhook.handled) :
       /\ j < k
       /\ HandledAt(j).started
       /\ HandledAt(j).event.commenter = "bob"
       /\ HandledAt(k).event.own
       /\ HandledAt(k).event.body.marker = ApprovalNotificationName
       /\ ~HandledAt(k).started
  /\ webhook.queue = <<>>
  /\ ev[1].pc = "idle"

\* ------------------------------------------------------------------ C26
LabelPresent == \E k \in 1..Len(labels) : labels[k] = LabelsApproved

\* An evaluation has returned success, each of its mutations succeeded and
\* nobody else changed the pull request while it ran.
RanClean(p) ==
  /\ ev[p].pc = "returned" /\ ev[p].ret = "nil"
  /\ AllOk(ev[p].calls)
  /\ ev[p].undisturbed

\* C26. Convergence on re-run: an evaluation in which every mutation
\* succeeded, whatever an earlier evaluation failed to do, leaves the pull
\* request reconciled: the approved label is present iff its verdict is
\* approved, and the latest status comment holds the message rendered for
\* its verdict.
C26_Convergence ==
  \A p \in Evals :
    RanClean(p) =>
      /\ LabelPresent <=> IsApproved(ev[p].ap)
      /\ StatusComments # <<>>
      /\ BodyContains(StatusComments[Len(StatusComments)].Body,
                      GetMessage(ev[p].ap))

\* The re-run after an evaluation that added the label for bob's approval
\* but failed to post its status comment: nothing has changed since, the
\* re-run finds the label and no status comment, and posts the comment.
C26_Witness ==
  \E p \in Evals :
    /\ RanClean(p)
    /\ ~ev[p].rerun
    /\ nFails = 1
    /\ events = <<LabelEvent("labeled", BotLogin)>>
    /\ ev[p].hasApprovedLabel
    /\ ev[p].notifications = <<>>
    /\ Ops(ev[p].calls) = <<"CreateComment">>
    /\ Len(StatusComments) = 1

====
